---- MODULE Spec2Model ----
(***************************************************************************)
(* A model of oring's frame-pacing client: the freezable logical clock     *)
(* (src/src/oring-clock.c), the reference-counted outputs                  *)
(* (src/src/output.c) and the per-frame submission records with their      *)
(* frame-callback and presentation-feedback handlers (src/src/cal.c).      *)
(*                                                                         *)
(* Four specifications share the module:                                   *)
(*   SpecClock  the clock alone, driven by arbitrary freeze/thaw/query     *)
(*              calls, legal and illegal ones, with the history of its     *)
(*              transitions;                                               *)
(*   SpecMono   the clock again, keeping one earlier query result to       *)
(*              compare later queries with;                                *)
(*   Spec       the client: main loop, redraw, the event handlers that     *)
(*              the compositor's events run, output removal and teardown;  *)
(*   SpecPredict  the frame predictor and the scheduler, which are not in  *)
(*              src/ and are modelled from the specification.              *)
(***************************************************************************)
EXTENDS Integers, Naturals, Sequences, FiniteSets, TLC

(***************************************************************************)
(* Bounds of the model.  Machine words are scaled down: Width is the       *)
(* number of bits of the model's "uint64_t"/"int64_t", and a "second" has  *)
(* NSEC_PER_SEC model nanoseconds.                                         *)
(***************************************************************************)
Width == 4

MaxSec == 1

MaxTransitions == 4

NSEC_PER_SEC == 3

\* Submission records the heap has room for, and outputs the compositor
\* can have announced at one time.
MaxSubm == 2

MaxOutputs == 2

MaxStamp == 2

MaxPeriod == 2

MaxRate == 3

UINT64_MAX == (2 ^ Width) - 1

INT64_MAX == (2 ^ (Width - 1)) - 1

INT64_MIN == -(2 ^ (Width - 1))

\* Conversion of an integer to uint64_t: reduction modulo 2^Width.
U64(x) == x % (UINT64_MAX + 1)

\* struct timespec values the physical clock can produce (normalised).
Timespecs == [tv_sec : 0 .. MaxSec, tv_nsec : 0 .. (NSEC_PER_SEC - 1)]

\* Epochs a clock is initialised with: instants of the first second.
Epochs == {t \in Timespecs : t.tv_sec = 0}

(***************************************************************************)
(* timespec-util.h                                                         *)
(***************************************************************************)
\* r = a - b, with the borrow that keeps 0 <= r.tv_nsec < NSEC_PER_SEC.
timespec_sub(a, b) ==
  IF a.tv_nsec - b.tv_nsec < 0
    THEN [tv_sec |-> a.tv_sec - b.tv_sec - 1,
          tv_nsec |-> a.tv_nsec - b.tv_nsec + NSEC_PER_SEC]
    ELSE [tv_sec |-> a.tv_sec - b.tv_sec,
          tv_nsec |-> a.tv_nsec - b.tv_nsec]

timespec_to_nsec(a) == a.tv_sec * NSEC_PER_SEC + a.tv_nsec

(***************************************************************************)
(* oring-clock.c                                                           *)
(***************************************************************************)
oring_clock_delta_nsec(oc, ts) == timespec_to_nsec(timespec_sub(ts, oc.base))

\* The int64_t result of oring_clock_delta_nsec is representable: the two
\* instants are less than 2^(Width-1) nanoseconds apart.  Callers only pass
\* readings of one physical clock, which satisfy this.
DeltaRepresentable(oc, ts) ==
  /\ oring_clock_delta_nsec(oc, ts) >= INT64_MIN
  /\ oring_clock_delta_nsec(oc, ts) <= INT64_MAX

\* Mutant: the offset is left at a stale non-zero value.
oring_clock_init_stale_offset(clock_id, epoch) ==
  [clock_id |-> clock_id, base |-> epoch, offset |-> 1, frozen |-> FALSE]

oring_clock_init(clock_id, epoch) ==
  [clock_id |-> clock_id, base |-> epoch, offset |-> 0, frozen |-> FALSE]

\* oring_clock_freeze and oring_clock_thaw return [ok, oc]: ok is FALSE when
\* an assert() fails, and then oc is the clock as the failing assert() found
\* it.
\* Mutant: the assert(oc->frozen == false) is missing.
oring_clock_freeze_no_frozen_assert(oc, now) ==
  LET delta == oring_clock_delta_nsec(oc, now)
      nsec == U64(oc.offset + U64(delta))
  IN  IF ~(delta >= 0) THEN [ok |-> FALSE, oc |-> oc]
      ELSE IF ~(nsec >= oc.offset) THEN [ok |-> FALSE, oc |-> oc]
      ELSE [ok |-> TRUE,
            oc |-> [oc EXCEPT !.base = now, !.offset = nsec, !.frozen = TRUE]]

\* Mutant: the offset is replaced by the last thawed interval, not added to.
oring_clock_freeze_no_accumulate(oc, now) ==
  LET delta == oring_clock_delta_nsec(oc, now)
      nsec == U64(delta)
  IN  IF oc.frozen # FALSE THEN [ok |-> FALSE, oc |-> oc]
      ELSE IF ~(delta >= 0) THEN [ok |-> FALSE, oc |-> oc]
      ELSE [ok |-> TRUE,
            oc |-> [oc EXCEPT !.base = now, !.offset = nsec, !.frozen = TRUE]]

\* Mutant: the assert(nsec >= oc->offset) is missing, the sum wraps.
oring_clock_freeze_no_wrap_assert(oc, now) ==
  LET delta == oring_clock_delta_nsec(oc, now)
      nsec == U64(oc.offset + U64(delta))
  IN  IF oc.frozen # FALSE THEN [ok |-> FALSE, oc |-> oc]
      ELSE IF ~(delta >= 0) THEN [ok |-> FALSE, oc |-> oc]
      ELSE [ok |-> TRUE,
            oc |-> [oc EXCEPT !.base = now, !.offset = nsec, !.frozen = TRUE]]

oring_clock_freeze(oc, now) ==
  LET delta == oring_clock_delta_nsec(oc, now)
      nsec == U64(oc.offset + U64(delta))
  IN  IF oc.frozen # FALSE THEN [ok |-> FALSE, oc |-> oc]
      ELSE IF ~(delta >= 0) THEN [ok |-> FALSE, oc |-> oc]
      ELSE IF ~(nsec >= oc.offset) THEN [ok |-> FALSE, oc |-> oc]
      ELSE [ok |-> TRUE,
            oc |-> [oc EXCEPT !.base = now, !.offset = nsec, !.frozen = TRUE]]

\* Mutant: the base is not moved to the thaw instant.
oring_clock_thaw_keeps_base(oc, now) ==
  LET delta == oring_clock_delta_nsec(oc, now)
  IN  IF oc.frozen # TRUE THEN [ok |-> FALSE, oc |-> oc]
      ELSE IF ~(delta >= 0) THEN [ok |-> FALSE, oc |-> oc]
      ELSE [ok |-> TRUE, oc |-> [oc EXCEPT !.frozen = FALSE]]

\* Mutant: the assert(delta >= 0) is missing.
oring_clock_thaw_no_delta_assert(oc, now) ==
  IF oc.frozen # TRUE THEN [ok |-> FALSE, oc |-> oc]
  ELSE [ok |-> TRUE, oc |-> [oc EXCEPT !.base = now, !.frozen = FALSE]]

oring_clock_thaw(oc, now) ==
  LET delta == oring_clock_delta_nsec(oc, now)
  IN  IF oc.frozen # TRUE THEN [ok |-> FALSE, oc |-> oc]
      ELSE IF ~(delta >= 0) THEN [ok |-> FALSE, oc |-> oc]
      ELSE [ok |-> TRUE, oc |-> [oc EXCEPT !.base = now, !.frozen = FALSE]]

\* Mutant: the clamp to the freeze point is missing.
oring_clock_get_nsec_no_clamp(oc, ts) ==
  LET delta == oring_clock_delta_nsec(oc, ts)
      nsec == U64(oc.offset + U64(delta))
  IN  IF ~(delta >= 0 \/ U64(-delta) <= oc.offset)
        THEN [ok |-> FALSE, val |-> 0]
      ELSE IF ~(delta < 0 \/ UINT64_MAX - U64(delta) >= oc.offset)
        THEN [ok |-> FALSE, val |-> 0]
      ELSE [ok |-> TRUE, val |-> nsec]

\* Mutant: the underflow assert is missing, the sum wraps.
oring_clock_get_nsec_no_underflow_assert(oc, ts) ==
  LET delta == oring_clock_delta_nsec(oc, ts)
      nsec == U64(oc.offset + U64(delta))
  IN  IF ~(delta < 0 \/ UINT64_MAX - U64(delta) >= oc.offset)
        THEN [ok |-> FALSE, val |-> 0]
      ELSE IF oc.frozen /\ nsec > oc.offset
        THEN [ok |-> TRUE, val |-> oc.offset]
      ELSE [ok |-> TRUE, val |-> nsec]

\* Mutant: a frozen clock reads as the freeze point at every instant.
oring_clock_get_nsec_frozen_is_constant(oc, ts) ==
  LET delta == oring_clock_delta_nsec(oc, ts)
      nsec == U64(oc.offset + U64(delta))
  IN  IF ~(delta >= 0 \/ U64(-delta) <= oc.offset)
        THEN [ok |-> FALSE, val |-> 0]
      ELSE IF ~(delta < 0 \/ UINT64_MAX - U64(delta) >= oc.offset)
        THEN [ok |-> FALSE, val |-> 0]
      ELSE IF oc.frozen
        THEN [ok |-> TRUE, val |-> oc.offset]
      ELSE [ok |-> TRUE, val |-> nsec]

\* Mutant: a thawed clock rejects every instant before its base.
oring_clock_get_nsec_thawed_rejects_early(oc, ts) ==
  LET delta == oring_clock_delta_nsec(oc, ts)
      nsec == U64(oc.offset + U64(delta))
  IN  IF ~(delta >= 0 \/ (oc.frozen /\ U64(-delta) <= oc.offset))
        THEN [ok |-> FALSE, val |-> 0]
      ELSE IF ~(delta < 0 \/ UINT64_MAX - U64(delta) >= oc.offset)
        THEN [ok |-> FALSE, val |-> 0]
      ELSE IF oc.frozen /\ nsec > oc.offset
        THEN [ok |-> TRUE, val |-> oc.offset]
      ELSE [ok |-> TRUE, val |-> nsec]

\* oring_clock_get_nsec returns [ok, val]: ok is FALSE when an assert() fails
\* and no value is returned.
oring_clock_get_nsec(oc, ts) ==
  LET delta == oring_clock_delta_nsec(oc, ts)
      nsec == U64(oc.offset + U64(delta))
  IN  IF ~(delta >= 0 \/ U64(-delta) <= oc.offset)
        THEN [ok |-> FALSE, val |-> 0]
      ELSE IF ~(delta < 0 \/ UINT64_MAX - U64(delta) >= oc.offset)
        THEN [ok |-> FALSE, val |-> 0]
      ELSE IF oc.frozen /\ nsec > oc.offset
        THEN [ok |-> TRUE, val |-> oc.offset]
      ELSE [ok |-> TRUE, val |-> nsec]

CLOCK_MONOTONIC == 1

(***************************************************************************)
(* State.                                                                  *)
(***************************************************************************)
VARIABLES
  oc,        \* struct oring_clock: the clock under test, display::gfx_clock
  epoch,     \* the epoch oc was initialised with
  hist,      \* timestamps of the successful freeze/thaw calls, in order
  op,        \* the last clock call: [name, ts]
  q,         \* result of the last call when it was a query: [ok, val]
  held,      \* an earlier successful query kept for comparison
  aborted,   \* an assert() has failed or the process has crashed
  presentation,      \* display::presentation is not NULL
  subm,              \* the struct submission in each heap slot
  submissions_list,  \* window::submissions_list, head first
  cb,                \* the wl_callback proxy created for each slot
  fb,                \* the wp_presentation_feedback proxy of each slot
  output,            \* the struct output in each output slot
  output_list,       \* display::output_list, head first
  zombie,            \* a wl_output proxy was destroyed that the compositor
                     \* may still name in events
  running,           \* the global running flag
  pc,                \* where main() is
  fault,             \* why the process died, "none" while it lives
  printed            \* what the last step wrote to stdout and stderr: the
                     \* number of "Trigger" lines, how many of them were
                     \* written while the submission they are about was
                     \* still allocated, and the number of "frame
                     \* discarded" and of "output leaked" warnings
  ,
  pending,           \* the window's pending target times, oldest first
  logged,            \* advisory log entries written by the last scheduler
                     \* or predictor call
  loop,              \* the event loop and its transport: see NoLoop
  setup,             \* struct display during display_connect: clock_id, messages
  modes,             \* struct output: mode_list, current, done
  event,             \* the misdelivered protocol event, if one was delivered
  advisory,          \* display::warned_flags and the warnings written so far
  on_output_list,    \* window::on_output_list: the outputs the surface is on
  call               \* the last predictor or scheduler call: its data and
                     \* what it computed

heapVars ==
  <<presentation, subm, submissions_list, cb, fb, output, output_list,
    zombie, running, pc, fault, printed>>

predVars == <<pending, logged, call>>

otherVars == <<loop, setup, modes, event, advisory, on_output_list>>

clientVars == <<heapVars, predVars, otherVars>>

vars ==
  <<oc, epoch, hist, op, q, held, aborted, presentation, subm,
    submissions_list, cb, fb, output, output_list, zombie, running, pc,
    fault, printed, pending, logged, call, otherVars>>

NoQuery == [ok |-> FALSE, val |-> 0]

NoHeld ==
  [set |-> FALSE, ts |-> [tv_sec |-> 0, tv_nsec |-> 0], val |-> 0,
   early |-> FALSE]

\* Nanoseconds of a timestamp since the physical clock's zero.
Nsec(t) == timespec_to_nsec(t)

(***************************************************************************)
(* The client's heap: submissions (cal.c) and outputs (output.c).          *)
(*                                                                         *)
(* A pointer to a struct submission or struct output is its slot number;   *)
(* NULL is 0.  A slot's mem is "live" while it is allocated and "free"     *)
(* before that and after free().  A slot's proxy is "live" from its        *)
(* creation until the client destroys it and "gone" otherwise; the         *)
(* compositor's events reach the client only on live proxies.              *)
(***************************************************************************)
SubmIds == 1 .. MaxSubm

OutIds == 1 .. MaxOutputs

NoSubm ==
  [mem |-> "free", frame |-> FALSE, frame_done |-> FALSE,
   feedback |-> FALSE, sync_output |-> 0]

NoOutput == [mem |-> "free", refcount |-> 0, proxy |-> FALSE]

\* What the handlers and their callees read and write, as one record.
World ==
  [subm |-> subm, list |-> submissions_list, cb |-> cb, fb |-> fb,
   output |-> output, olist |-> output_list, zombie |-> zombie,
   fault |-> fault, trig |-> 0, trig_live |-> 0, discarded |-> 0,
   leaked |-> 0]

Fault(w, why) == [w EXCEPT !.fault = why]

\* wl_list_remove
ListRemove(l, x) == SelectSeq(l, LAMBDA y : y # x)

(***************************************************************************)
(* output.c                                                                *)
(***************************************************************************)
\* The struct output output_create() returns for a bound wl_output.
output_create == [mem |-> "live", refcount |-> 1, proxy |-> TRUE]

output_destroy(w, o) ==
  [w EXCEPT !.olist = ListRemove(w.olist, o),
            !.zombie = @ \/ w.output[o].proxy,
            !.output[o] = NoOutput]

output_ref(w, o) ==
  IF w.fault # "none" THEN w
  ELSE IF o = 0 THEN Fault(w, "null dereference")
  ELSE IF w.output[o].mem # "live" THEN Fault(w, "use after free")
  ELSE IF ~(w.output[o].refcount > 0) THEN Fault(w, "assert")
  ELSE [w EXCEPT !.output[o].refcount = @ + 1]

output_unref(w, o) ==
  IF w.fault # "none" THEN w
  ELSE IF o = 0 THEN Fault(w, "null dereference")
  ELSE IF w.output[o].mem # "live" THEN Fault(w, "use after free")
  ELSE IF ~(w.output[o].refcount > 0) THEN Fault(w, "assert")
  ELSE IF w.output[o].refcount - 1 = 0 THEN output_destroy(w, o)
  ELSE [w EXCEPT !.output[o].refcount = @ - 1]

\* Mutant: removal by the compositor destroys the output at once.
output_remove_destroys(w, o) ==
  output_destroy([w EXCEPT !.output[o].proxy = FALSE, !.zombie = TRUE], o)

output_remove(w, o) ==
  output_unref([w EXCEPT !.output[o].proxy = FALSE, !.zombie = TRUE], o)

\* wo is the wl_output the event names: a slot whose proxy is live, or 0
\* when the name resolves to no proxy of the client.
output_from_wl_output(w, wo) == IF wo = 0 THEN 0 ELSE wo

(***************************************************************************)
(* cal.c: submissions                                                      *)
(***************************************************************************)
\* wl_callback_destroy / wp_presentation_feedback_destroy of slot s's proxy
ProxyDestroy(w, which, s) ==
  IF w.fault # "none" THEN w
  ELSE IF w[which][s] # "live" THEN Fault(w, "proxy destroyed twice")
  ELSE [w EXCEPT ![which][s] = "gone"]

\* Mutant: the frame callback is not destroyed with the submission.
submission_destroy_leaks_frame(w, s) ==
  IF w.fault # "none" THEN w
  ELSE
    LET w1 == [w EXCEPT !.list = ListRemove(w.list, s)]
        w3 == IF w1.subm[s].feedback THEN ProxyDestroy(w1, "fb", s) ELSE w1
        w4 == IF w3.subm[s].sync_output # 0
                THEN output_unref(w3, w3.subm[s].sync_output) ELSE w3
    IN  IF w4.fault # "none" THEN w4
        ELSE [w4 EXCEPT !.subm[s] = NoSubm]

submission_destroy(w, s) ==
  IF w.fault # "none" THEN w
  ELSE
    LET w1 == [w EXCEPT !.list = ListRemove(w.list, s)]
        w2 == IF w1.subm[s].frame THEN ProxyDestroy(w1, "cb", s) ELSE w1
        w3 == IF w2.subm[s].feedback THEN ProxyDestroy(w2, "fb", s) ELSE w2
        w4 == IF w3.subm[s].sync_output # 0
                THEN output_unref(w3, w3.subm[s].sync_output) ELSE w3
    IN  IF w4.fault # "none" THEN w4
        ELSE [w4 EXCEPT !.subm[s] = NoSubm]

\* Mutant: the trigger runs before the submission is destroyed.
submission_finish_triggers_first(w, s) ==
  IF w.fault # "none" THEN w
  ELSE
    LET live == IF w.subm[s].mem = "live" THEN 1 ELSE 0
    IN  submission_destroy([w EXCEPT !.trig = @ + 1,
                                     !.trig_live = @ + live], s)

\* printf("Trigger %p!\n", window) is counted in trig, and in trig_live
\* when the record is allocated at that moment.
submission_finish(w, s) ==
  IF w.fault # "none" THEN w
  ELSE
    LET w1 == submission_destroy(w, s)
        live == IF w1.subm[s].mem = "live" THEN 1 ELSE 0
    IN  IF w1.fault # "none" THEN w1
        ELSE [w1 EXCEPT !.trig = @ + 1, !.trig_live = @ + live]

\* Mutant: the feedback object is destroyed but subm->feedback keeps
\* pointing at it.
submission_feedback_destroy_keeps_field(w, s) ==
  IF w.fault # "none" THEN w
  ELSE IF ~w.subm[s].feedback THEN Fault(w, "assert")
  ELSE ProxyDestroy(w, "fb", s)

submission_feedback_destroy(w, s) ==
  IF w.fault # "none" THEN w
  ELSE IF ~w.subm[s].feedback THEN Fault(w, "assert")
  ELSE [ProxyDestroy(w, "fb", s) EXCEPT !.subm[s].feedback = FALSE]

\* Mutant: a later report replaces the output recorded by the first.
feedback_handle_sync_output_last_wins(w, s, wo) ==
  IF w.subm[s].mem # "live" THEN Fault(w, "use after free")
  ELSE
    LET out == output_from_wl_output(w, wo)
        w1 == output_ref(w, out)
    IN  IF w1.fault # "none" THEN w1
        ELSE [w1 EXCEPT !.subm[s].sync_output = out]

\* Mutant: the output is recorded without taking a reference.
feedback_handle_sync_output_borrows(w, s, wo) ==
  IF w.subm[s].mem # "live" THEN Fault(w, "use after free")
  ELSE IF w.subm[s].sync_output # 0 THEN w
  ELSE IF output_from_wl_output(w, wo) = 0
    THEN Fault(w, "null dereference")
  ELSE [w EXCEPT !.subm[s].sync_output = output_from_wl_output(w, wo)]

feedback_handle_sync_output(w, s, wo) ==
  IF w.subm[s].mem # "live" THEN Fault(w, "use after free")
  ELSE IF w.subm[s].sync_output # 0 THEN w
  ELSE
    LET out == output_from_wl_output(w, wo)
        w1 == output_ref(w, out)
    IN  IF w1.fault # "none" THEN w1
        ELSE [w1 EXCEPT !.subm[s].sync_output = out]

\* Mutant: assert(subm->frame_done) is missing.
feedback_handle_presented_no_frame_assert(w, s, clock, tm) ==
  IF w.subm[s].mem # "live" THEN Fault(w, "use after free")
  ELSE IF ~oring_clock_get_nsec(clock, tm).ok THEN Fault(w, "assert")
  ELSE submission_finish(submission_feedback_destroy(w, s), s)

feedback_handle_presented(w, s, clock, tm) ==
  IF w.subm[s].mem # "live" THEN Fault(w, "use after free")
  ELSE IF ~w.subm[s].frame_done THEN Fault(w, "assert")
  ELSE IF ~oring_clock_get_nsec(clock, tm).ok THEN Fault(w, "assert")
  ELSE submission_finish(submission_feedback_destroy(w, s), s)

\* Mutant: the handler asserts subm->frame_done as the presented one does.
feedback_handle_discarded_asserts_frame_done(w, s) ==
  LET w0 == [w EXCEPT !.discarded = @ + 1]
  IN  IF w0.subm[s].mem # "live" THEN Fault(w0, "use after free")
      ELSE IF ~w0.subm[s].frame_done THEN Fault(w0, "assert")
      ELSE submission_finish(submission_feedback_destroy(w0, s), s)

\* fprintf(stderr, "Warning: frame discarded unexpectedly.\n") is counted
\* in discarded.
feedback_handle_discarded(w, s) ==
  LET w0 == [w EXCEPT !.discarded = @ + 1]
  IN  IF w0.subm[s].mem # "live" THEN Fault(w0, "use after free")
      ELSE submission_finish(submission_feedback_destroy(w0, s), s)

\* Mutant: the submission is resolved at frame done even though
\* presentation feedback was requested.
frame_callback_handle_done_always_finishes(w, s, pres) ==
  IF w.subm[s].mem # "live" THEN Fault(w, "use after free")
  ELSE IF ~w.subm[s].frame THEN Fault(w, "assert")
  ELSE
    LET w1 == [ProxyDestroy(w, "cb", s) EXCEPT !.subm[s].frame = FALSE,
                                              !.subm[s].frame_done = TRUE]
    IN  submission_finish(w1, s)

frame_callback_handle_done(w, s, pres) ==
  IF w.subm[s].mem # "live" THEN Fault(w, "use after free")
  ELSE IF ~w.subm[s].frame THEN Fault(w, "assert")
  ELSE
    LET w1 == [ProxyDestroy(w, "cb", s) EXCEPT !.subm[s].frame = FALSE,
                                              !.subm[s].frame_done = TRUE]
    IN  IF ~pres THEN submission_finish(w1, s) ELSE w1

\* The heap slot zalloc returns: the first one that holds no live record
\* and whose old proxies are gone; 0 (NULL) when the heap is exhausted.
FreeSubm(w) ==
  LET free(s) == /\ w.subm[s].mem # "live"
                 /\ w.cb[s] # "live"
                 /\ w.fb[s] # "live"
  IN  IF \E s \in SubmIds : free(s)
        THEN CHOOSE s \in SubmIds :
               free(s) /\ \A t \in SubmIds : free(t) => s <= t
        ELSE 0

create_submission(w, pres) ==
  LET s == FreeSubm(w)
  IN  IF s = 0 THEN w
      ELSE [w EXCEPT
              !.subm[s] = [mem |-> "live", frame |-> TRUE,
                           frame_done |-> FALSE, feedback |-> pres,
                           sync_output |-> 0],
              !.cb[s] = "live",
              !.fb[s] = IF pres THEN "live" ELSE "gone",
              !.list = <<s>> \o w.list]

\* Mutant: the window resolves its submissions instead of destroying them.
RECURSIVE FinishAll(_, _)
FinishAll(w, l) ==
  IF l = <<>> THEN w
  ELSE FinishAll(submission_finish(w, Head(l)), Tail(l))

window_destroy_finishes(w) == FinishAll(w, w.list)

\* wl_list_for_each_safe(subm, tmp, &window->submissions_list, link)
\*         submission_destroy(subm);
RECURSIVE DestroyAll(_, _)
DestroyAll(w, l) ==
  IF l = <<>> THEN w
  ELSE DestroyAll(submission_destroy(w, Head(l)), Tail(l))

\* window::on_output_list stays empty: no wl_surface.enter event is part of
\* this specification.
window_destroy(w) == DestroyAll(w, w.list)

\* wl_list_for_each_safe(o, otmp, &d->output_list, link)
\*         if (output_unref(o) != 0) warn
RECURSIVE UnrefAll(_, _)
UnrefAll(w, l) ==
  IF l = <<>> THEN w
  ELSE
    LET w1 == output_unref(w, Head(l))
        left == IF w1.fault = "none" /\ w1.output[Head(l)].mem = "live"
                  THEN 1 ELSE 0
    IN  UnrefAll([w1 EXCEPT !.leaked = @ + left], Tail(l))

display_destroy(w) == UnrefAll(w, w.olist)

(***************************************************************************)
(* uint64_t values of real size.  The model checker's integers are too     *)
(* narrow for picoseconds per second, so such a value is the sequence of   *)
(* its base-Limb digits, most significant first, without leading zeros;    *)
(* zero is the empty sequence.  None of the values below reaches 2^64.     *)
(***************************************************************************)
Limb == 1000

RECURSIVE BigNorm(_)
BigNorm(a) == IF a # <<>> /\ Head(a) = 0 THEN BigNorm(Tail(a)) ELSE a

RECURSIVE BigFromNat(_)
BigFromNat(n) ==
  IF n = 0 THEN <<>> ELSE Append(BigFromNat(n \div Limb), n % Limb)

\* The digits of a without its last one.
Front(a) == SubSeq(a, 1, Len(a) - 1)

RECURSIVE BigAddCarry(_, _, _)
BigAddCarry(a, b, carry) ==
  IF a = <<>> /\ b = <<>> THEN BigFromNat(carry)
  ELSE
    LET x == IF a = <<>> THEN 0 ELSE a[Len(a)]
        y == IF b = <<>> THEN 0 ELSE b[Len(b)]
        cur == x + y + carry
    IN  Append(BigAddCarry(IF a = <<>> THEN a ELSE Front(a),
                           IF b = <<>> THEN b ELSE Front(b),
                           cur \div Limb),
               cur % Limb)

\* a + b
BigAdd(a, b) == BigNorm(BigAddCarry(a, b, 0))

RECURSIVE BigMulCarry(_, _, _)
BigMulCarry(a, m, carry) ==
  IF a = <<>> THEN BigFromNat(carry)
  ELSE
    LET cur == a[Len(a)] * m + carry
    IN  Append(BigMulCarry(Front(a), m, cur \div Limb), cur % Limb)

\* a * m for a multiplier m below 2^31 / Limb
BigMul(a, m) == BigNorm(BigMulCarry(a, m, 0))

RECURSIVE BigDivRem(_, _, _, _)
BigDivRem(a, d, rem, acc) ==
  IF a = <<>> THEN acc
  ELSE
    LET cur == rem * Limb + Head(a)
    IN  BigDivRem(Tail(a), d, cur % d, Append(acc, cur \div d))

\* a / d, truncated, for a divisor 0 < d < 2^31 / Limb
BigDiv(a, d) == BigNorm(BigDivRem(a, d, 0, <<>>))

RECURSIVE BigLexLess(_, _)
BigLexLess(a, b) ==
  IF a = <<>> THEN FALSE
  ELSE IF Head(a) # Head(b) THEN Head(a) < Head(b)
  ELSE BigLexLess(Tail(a), Tail(b))

\* a < b
BigLess(a, b) ==
  IF Len(a) # Len(b) THEN Len(a) < Len(b) ELSE BigLexLess(a, b)

(***************************************************************************)
(* The frame predictor and the scheduler.  Their code is in none of the    *)
(* files under src/ (cal.c there still prints "Trigger" where the          *)
(* predictor runs; cal.h and renderer.c already pass a target time         *)
(* around), so they are modelled from the specification, sections 4.2 to   *)
(* 4.4.                                                                    *)
(***************************************************************************)
\* 1_000_000_000_000, picoseconds per second
PSEC_PER_SEC == <<1, 0, 0, 0, 0>>

\* 60 Hz in millihertz
DefaultMillihz == 60000

\* An output as the predictor sees it: known is FALSE for "no output",
\* current is the refresh rate of its current mode in millihertz, 0 while
\* no current mode is known.
NoOut == [known |-> FALSE, current |-> 0]

Rates == (1 .. MaxRate) \cup {DefaultMillihz}

OutputModels == {NoOut} \cup [known : {TRUE}, current : {0} \cup Rates]

\* Logical times and measured periods of the model, in nanoseconds.
Stamps == 0 .. MaxStamp

Periods == 0 .. MaxPeriod

\* Mutant: the rate is taken for microhertz.
output_refresh_period_ns_per_microhertz(o) ==
  IF o.current = 0 THEN BigDiv(Append(PSEC_PER_SEC, 0), DefaultMillihz)
  ELSE BigDiv(Append(PSEC_PER_SEC, 0), o.current)

\* Mutant: the division rounds up.
output_refresh_period_ns_rounds_up(o) ==
  IF o.current = 0 THEN BigDiv(PSEC_PER_SEC, DefaultMillihz)
  ELSE BigDiv(BigAdd(PSEC_PER_SEC, BigFromNat(o.current - 1)), o.current)

\* refresh_period_ns(): 1_000_000_000_000 / current_mode.refresh_millihertz,
\* the 60 Hz default when no current mode is known.
output_refresh_period_ns(o) ==
  IF o.current = 0 THEN BigDiv(PSEC_PER_SEC, DefaultMillihz)
  ELSE BigDiv(PSEC_PER_SEC, o.current)

\* Mutant: the output the window overlaps is preferred to the sync output.
predict_period_window_first(measured, sync, win) ==
  IF measured # 0 THEN BigFromNat(measured)
  ELSE IF win.known THEN output_refresh_period_ns(win)
  ELSE IF sync.known THEN output_refresh_period_ns(sync)
  ELSE BigDiv(PSEC_PER_SEC, DefaultMillihz)

\* The period the presented path predicts with.
predict_period(measured, sync, win) ==
  IF measured # 0 THEN BigFromNat(measured)
  ELSE IF sync.known THEN output_refresh_period_ns(sync)
  ELSE IF win.known THEN output_refresh_period_ns(win)
  ELSE BigDiv(PSEC_PER_SEC, DefaultMillihz)

\* Mutant: the measured period is not used.
predict_presented_ignores_measured(presented_time, measured, sync, win) ==
  LET period == predict_period(0, sync, win)
  IN  [period |-> period,
       next |-> BigAdd(BigFromNat(presented_time), period)]

\* From presented data: next_target = presented_time + period
predict_presented(presented_time, measured, sync, win) ==
  LET period == predict_period(measured, sync, win)
  IN  [period |-> period,
       next |-> BigAdd(BigFromNat(presented_time), period)]

\* Mutant: the period is halved before it is tripled.
predict_frame_only_divides_first(now, win) ==
  LET period == IF win.known THEN output_refresh_period_ns(win)
                ELSE BigDiv(PSEC_PER_SEC, DefaultMillihz)
  IN  [period |-> period,
       next |-> BigAdd(BigFromNat(now), BigMul(BigDiv(period, 2), 3))]

\* From frame-ready-only data: next_target = value_now() + period * 3 / 2
predict_frame_only(now, win) ==
  LET period == IF win.known THEN output_refresh_period_ns(win)
                ELSE BigDiv(PSEC_PER_SEC, DefaultMillihz)
  IN  [period |-> period,
       next |-> BigAdd(BigFromNat(now), BigDiv(BigMul(period, 3), 2))]

\* Mutant: a second target time is queued behind the pending one.
window_schedule_queues(p, target_time) ==
  [pending |-> Append(p, target_time),
   logged |-> IF p # <<>> THEN 1 ELSE 0]

\* schedule(window, target_time): p is the window's pending target times;
\* logged counts the advisory log entries of the call.
window_schedule(p, target_time) ==
  [pending |-> <<target_time>>, logged |-> IF p # <<>> THEN 1 ELSE 0]

\* drain_pending(window)
window_drain_pending(p) ==
  IF p = <<>> THEN [pending |-> p, valid |-> FALSE, time |-> <<>>]
  ELSE [pending |-> <<>>, valid |-> TRUE, time |-> Head(p)]

NoCall ==
  [name |-> "none", stamp |-> 0, measured |-> 0, sync |-> NoOut,
   win |-> NoOut, period |-> <<>>, next |-> <<>>, valid |-> FALSE]

\* No predictor or scheduler call has been made.
NoPredictor ==
  /\ pending = <<>>
  /\ logged = 0
  /\ call = NoCall

(***************************************************************************)
(* The event loop.  The loop of src/src/cal.c only dispatches and redraws  *)
(* (see Spec); the loop that blocks in a multiplexer and prepares reads    *)
(* is declared in cal.h (display::epoll_fd, display::display_watch,        *)
(* display::must_read) and is modelled from the specification, section 5.  *)
(***************************************************************************)
\* must_read: display::must_read, a read was prepared and is still to be
\* completed or cancelled; prepared: the reads the transport counts as
\* prepared; want_write: interest in writability is registered; last: what
\* the loop last did to the transport.
NoLoop ==
  [must_read |-> FALSE, prepared |-> 0, want_write |-> FALSE,
   last |-> "none"]

\* The specifications that are not about them leave these variables alone.
\* struct display as display_connect() finds it: d->clock_id is only set
\* while display_connect() runs.
INVALID_CLOCK_ID == 9999

NoSetup ==
  [phase |-> "none", clock_id |-> INVALID_CLOCK_ID, received |-> <<>>,
   warned |-> FALSE, error |-> FALSE]

\* struct output as output_create() leaves it: wl_list_init(&o->mode_list),
\* current and done zeroed by xzalloc.  current is the position in
\* mode_list of the mode o->current points to, 0 for NULL; received is the
\* sequence of mode events delivered so far.
NoModes == [mode_list |-> <<>>, current |-> 0, done |-> FALSE,
            received |-> <<>>]

\* No event has reached a handler with a handle that is not the one the
\* submission holds.
NoEvent == [handler |-> "none", subm |-> 0, handle |-> 0]

\* display::warned_flags is zeroed by xzalloc; nothing has been presented
\* or discarded and no warning has been written.
\* lacked counts, for each quality flag, the presented events that came
\* without it; warnings is everything written to stderr, in order.
NoAdvisory ==
  [warned_flags |-> {},
   lacked |-> [f \in {"vsync", "hw_clock", "hw_completion"} |-> 0],
   warnings |-> <<>>, discards |-> 0, events |-> 0, last |-> "none"]

\* wl_list_init(&window->on_output_list)
NoOn == <<>>

NoOther ==
  /\ loop = NoLoop /\ setup = NoSetup /\ modes = NoModes /\ event = NoEvent
  /\ advisory = NoAdvisory /\ on_output_list = NoOn

(***************************************************************************)
(* SpecClock: the clock driven by a caller.                                *)
(***************************************************************************)
\* The clock specifications have no client.
NoClient ==
  /\ presentation = FALSE
  /\ subm = [s \in SubmIds |-> NoSubm]
  /\ submissions_list = <<>>
  /\ cb = [s \in SubmIds |-> "gone"]
  /\ fb = [s \in SubmIds |-> "gone"]
  /\ output = [o \in OutIds |-> NoOutput]
  /\ output_list = <<>>
  /\ zombie = FALSE
  /\ running = FALSE
  /\ pc = "none"
  /\ fault = "none"
  /\ printed = [trig |-> 0, trig_live |-> 0, discarded |-> 0, leaked |-> 0]

InitClock ==
  /\ epoch \in Epochs
  /\ oc = oring_clock_init(CLOCK_MONOTONIC, epoch)
  /\ hist = <<>>
  /\ op = [name |-> "init", ts |-> epoch]
  /\ q = NoQuery
  /\ held = NoHeld
  /\ aborted = FALSE
  /\ NoClient
  /\ NoPredictor
  /\ NoOther

\* A freeze or thaw call that returned r.
Transition(name, now, r) ==
  /\ oc' = r.oc
  /\ aborted' = ~r.ok
  /\ op' = [name |-> name, ts |-> now]
  /\ q' = NoQuery
  /\ UNCHANGED epoch
  /\ UNCHANGED clientVars

\* A query that returned r.
Query(ts, r) ==
  /\ q' = r
  /\ aborted' = ~r.ok
  /\ op' = [name |-> "get", ts |-> ts]
  /\ UNCHANGED <<oc, epoch>>
  /\ UNCHANGED clientVars

Freeze ==
  \E now \in Timespecs :
    /\ ~aborted
    /\ Len(hist) < MaxTransitions
    /\ DeltaRepresentable(oc, now)
    /\ Transition("freeze", now, oring_clock_freeze(oc, now))
    /\ hist' = IF oring_clock_freeze(oc, now).ok THEN Append(hist, now)
               ELSE hist
    /\ UNCHANGED held

Thaw ==
  \E now \in Timespecs :
    /\ ~aborted
    /\ Len(hist) < MaxTransitions
    /\ DeltaRepresentable(oc, now)
    /\ Transition("thaw", now, oring_clock_thaw(oc, now))
    /\ hist' = IF oring_clock_thaw(oc, now).ok THEN Append(hist, now)
               ELSE hist
    /\ UNCHANGED held

GetNsec ==
  \E ts \in Timespecs :
    /\ ~aborted
    /\ DeltaRepresentable(oc, ts)
    /\ Query(ts, oring_clock_get_nsec(oc, ts))
    /\ UNCHANGED <<hist, held>>

NextClock == Freeze \/ Thaw \/ GetNsec

SpecClock == InitClock /\ [][NextClock]_vars

(***************************************************************************)
(* SpecWide: the same calls over a physical clock that runs for longer     *)
(* than a uint64_t of nanoseconds can count, without the history.          *)
(***************************************************************************)
WideTimespecs ==
  [tv_sec : 0 .. ((UINT64_MAX \div NSEC_PER_SEC) + 1),
   tv_nsec : 0 .. (NSEC_PER_SEC - 1)]

FreezeW ==
  \E now \in WideTimespecs :
    /\ ~aborted
    /\ DeltaRepresentable(oc, now)
    /\ Transition("freeze", now, oring_clock_freeze(oc, now))
    /\ UNCHANGED <<hist, held>>

ThawW ==
  \E now \in WideTimespecs :
    /\ ~aborted
    /\ DeltaRepresentable(oc, now)
    /\ Transition("thaw", now, oring_clock_thaw(oc, now))
    /\ UNCHANGED <<hist, held>>

GetNsecW ==
  \E ts \in WideTimespecs :
    /\ ~aborted
    /\ DeltaRepresentable(oc, ts)
    /\ Query(ts, oring_clock_get_nsec(oc, ts))
    /\ UNCHANGED <<hist, held>>

\* One epoch is enough here: only differences of instants are computed.
InitWide == InitClock /\ epoch = [tv_sec |-> 0, tv_nsec |-> 0]

SpecWide == InitWide /\ [][FreezeW \/ ThawW \/ GetNsecW]_vars

(***************************************************************************)
(* SpecMono: the same calls without the history; held keeps one earlier    *)
(* successful query made at or after the last transition, and records in   *)
(* held.early whether a later transition carried an earlier timestamp.     *)
(***************************************************************************)
NoteEarly(now) ==
  [held EXCEPT !.early = @ \/ (held.set /\ Nsec(now) < Nsec(held.ts))]

FreezeM ==
  \E now \in Timespecs :
    /\ ~aborted
    /\ DeltaRepresentable(oc, now)
    /\ Transition("freeze", now, oring_clock_freeze(oc, now))
    /\ held' = NoteEarly(now)
    /\ UNCHANGED hist

ThawM ==
  \E now \in Timespecs :
    /\ ~aborted
    /\ DeltaRepresentable(oc, now)
    /\ Transition("thaw", now, oring_clock_thaw(oc, now))
    /\ held' = NoteEarly(now)
    /\ UNCHANGED hist

GetNsecM ==
  \E ts \in Timespecs, keep \in BOOLEAN :
    /\ ~aborted
    /\ DeltaRepresentable(oc, ts)
    /\ Query(ts, oring_clock_get_nsec(oc, ts))
    /\ held' = IF keep /\ oring_clock_get_nsec(oc, ts).ok
                       /\ Nsec(ts) >= Nsec(oc.base)
                 THEN [set |-> TRUE, ts |-> ts,
                       val |-> oring_clock_get_nsec(oc, ts).val,
                       early |-> FALSE]
                 ELSE held
    /\ UNCHANGED hist

NextMono == FreezeM \/ ThawM \/ GetNsecM

SpecMono == InitClock /\ [][NextMono]_vars

(***************************************************************************)
(* Spec: the client of cal.c.  The state after display_connect(),          *)
(* display_choose_output() and create_window(): the clock initialised,     *)
(* MaxOutputs outputs announced, no submission yet.                        *)
(***************************************************************************)
\* The epoch oring_clock_init_now() read for display::gfx_clock.
GfxEpoch == [tv_sec |-> 0, tv_nsec |-> 1]

Init ==
  /\ epoch = GfxEpoch
  /\ oc = oring_clock_init(CLOCK_MONOTONIC, epoch)
  /\ hist = <<>>
  /\ op = [name |-> "init", ts |-> epoch]
  /\ q = NoQuery
  /\ held = NoHeld
  /\ aborted = FALSE
  /\ presentation \in BOOLEAN
  /\ subm = [s \in SubmIds |-> NoSubm]
  /\ submissions_list = <<>>
  /\ cb = [s \in SubmIds |-> "gone"]
  /\ fb = [s \in SubmIds |-> "gone"]
  /\ output = [o \in OutIds |-> output_create]
  /\ output_list = [i \in OutIds |-> i]
  /\ zombie = FALSE
  /\ running = TRUE
  /\ pc = "check"
  /\ fault = "none"
  /\ printed = [trig |-> 0, trig_live |-> 0, discarded |-> 0, leaked |-> 0]
  /\ NoPredictor
  /\ NoOther

\* The heap after a step is w.
HeapStep(w) ==
  /\ subm' = w.subm
  /\ submissions_list' = w.list
  /\ cb' = w.cb
  /\ fb' = w.fb
  /\ output' = w.output
  /\ output_list' = w.olist
  /\ zombie' = w.zombie
  /\ fault' = w.fault
  /\ aborted' = (w.fault # "none")
  /\ printed' = [trig |-> w.trig, trig_live |-> w.trig_live,
                 discarded |-> w.discarded, leaked |-> w.leaked]
  /\ UNCHANGED <<oc, epoch, hist, op, q, held, presentation>>
  /\ UNCHANGED predVars

\* A step ran and left the heap as w.
Step(w) == HeapStep(w) /\ UNCHANGED otherVars

\* Mutant: queued events are also handled while redraw() is in progress.
Dispatching_in_redraw == pc \in {"dispatch", "redraw"} /\ fault = "none"

\* wl_display_dispatch_pending() is running the handlers of queued events.
Dispatching == pc = "dispatch" /\ fault = "none"

\* while (running && ret != -1), entered for the first time
LoopCheck ==
  /\ pc = "check"
  /\ fault = "none"
  /\ pc' = IF running THEN "dispatch" ELSE "exiting"
  /\ Step(World)
  /\ UNCHANGED running

\* wl_display_dispatch_pending() returns.
DispatchReturn ==
  /\ Dispatching
  /\ pc' = "redraw"
  /\ Step(World)
  /\ UNCHANGED running

\* Mutant: the loop condition is not tested after redraw().
Redraw_ignores_running ==
  /\ pc = "redraw"
  /\ fault = "none"
  /\ pc' = "dispatch"
  /\ Step(create_submission(World, presentation))
  /\ UNCHANGED running

\* redraw(), and the loop condition that is tested next
Redraw ==
  /\ pc = "redraw"
  /\ fault = "none"
  /\ pc' = IF running THEN "dispatch" ELSE "exiting"
  /\ Step(create_submission(World, presentation))
  /\ UNCHANGED running

\* signal_int: SIGINT arrives; keyboard_handle_key: KEY_ESC is pressed.
SignalInt ==
  /\ pc \in {"check", "dispatch", "redraw"}
  /\ fault = "none"
  /\ running
  /\ running' = FALSE
  /\ Step(World)
  /\ UNCHANGED pc

\* The compositor's wl_callback.done reaches the frame callback of s.
FrameDoneAt(s) ==
  /\ Dispatching
  /\ cb[s] = "live"
  /\ UNCHANGED <<pc, running>>
  /\ Step(frame_callback_handle_done(World, s, presentation))

FrameDone == \E s \in SubmIds : FrameDoneAt(s)

\* The wl_output arguments an event can carry: the live proxies, and NULL
\* for a wl_output the client has destroyed.
WlOutputs ==
  {o \in OutIds : output[o].mem = "live" /\ output[o].proxy}
    \cup (IF zombie THEN {0} ELSE {})

\* wp_presentation_feedback.sync_output naming wo reaches the feedback of s.
SyncOutputAt(s, wo) ==
  /\ Dispatching
  /\ fb[s] = "live"
  /\ wo \in WlOutputs
  /\ UNCHANGED <<pc, running>>
  /\ Step(feedback_handle_sync_output(World, s, wo))

SyncOutput == \E s \in SubmIds, wo \in OutIds \cup {0} : SyncOutputAt(s, wo)

\* The timestamps a presented event carries: those of the clock's first
\* second, of which one is before the epoch of display::gfx_clock.
PresentTimes == Epochs

\* wp_presentation_feedback.presented with timestamp tm
PresentedAt(s, tm) ==
  /\ Dispatching
  /\ fb[s] = "live"
  /\ DeltaRepresentable(oc, tm)
  /\ UNCHANGED <<pc, running>>
  /\ Step(feedback_handle_presented(World, s, oc, tm))

Presented == \E s \in SubmIds, tm \in PresentTimes : PresentedAt(s, tm)

\* wp_presentation_feedback.discarded
DiscardedAt(s) ==
  /\ Dispatching
  /\ fb[s] = "live"
  /\ UNCHANGED <<pc, running>>
  /\ Step(feedback_handle_discarded(World, s))

Discarded == \E s \in SubmIds : DiscardedAt(s)

\* registry_handle_global_remove naming an announced output
GlobalRemove ==
  \E o \in OutIds :
    /\ Dispatching
    /\ output[o].mem = "live"
    /\ output[o].proxy
    /\ Step(output_remove(World, o))
    /\ UNCHANGED <<pc, running>>

WindowDestroy ==
  /\ pc = "exiting"
  /\ fault = "none"
  /\ pc' = "fini"
  /\ Step(window_destroy(World))
  /\ UNCHANGED running

DisplayDestroy ==
  /\ pc = "fini"
  /\ fault = "none"
  /\ pc' = "done"
  /\ Step(display_destroy(World))
  /\ UNCHANGED running

Next ==
  \/ LoopCheck
  \/ DispatchReturn
  \/ Redraw
  \/ SignalInt
  \/ FrameDone
  \/ SyncOutput
  \/ Presented
  \/ Discarded
  \/ GlobalRemove
  \/ WindowDestroy
  \/ DisplayDestroy

Spec == Init /\ [][Next]_vars

(***************************************************************************)
(* SpecLive: the client again, with a process that keeps running and a     *)
(* compositor that keeps answering.                                        *)
(*                                                                         *)
(* main() is never suspended for ever: from each of its program points it  *)
(* eventually moves to the next one, unless the process has died.  The     *)
(* step that does so (LoopCheck, DispatchReturn, Redraw, WindowDestroy,    *)
(* DisplayDestroy) has no other guard than the program point.              *)
(*                                                                         *)
(* The compositor eventually answers every frame callback and every        *)
(* feedback object.  The client handles an answer only while               *)
(* wl_display_dispatch_pending() runs, which it does again and again,      *)
(* hence the strong fairness.                                              *)
(***************************************************************************)
MainMoves ==
  /\ fault = "none"
  /\ pc \in {"check", "dispatch", "redraw", "exiting", "fini"}
  /\ pc' \in {"dispatch", "redraw", "exiting", "fini", "done"}
  /\ pc' # pc

\* The frame callback of slot s is answered and handled.
FrameAnswered(s) ==
  /\ Dispatching
  /\ cb[s] = "live"
  /\ cb' = [cb EXCEPT ![s] = "gone"]

\* The feedback object of slot s is answered and handled.
FeedbackAnswered(s) ==
  /\ Dispatching
  /\ fb[s] = "live"
  /\ fb' = [fb EXCEPT ![s] = "gone"]

Fairness ==
  /\ WF_pc(MainMoves)
  /\ \A s \in SubmIds : SF_cb(FrameAnswered(s)) /\ SF_fb(FeedbackAnswered(s))

SpecLive == Init /\ [][Next]_vars /\ Fairness

\* The same program when only main() is known to keep running: nothing is
\* assumed of the compositor.
SpecCancel == Init /\ [][Next]_vars /\ WF_pc(MainMoves)

(***************************************************************************)
(* SpecHotplug: the client of Spec when outputs come and go and the        *)
(* window's surface enters and leaves them, and with display_destroy()     *)
(* taken in its two halves: the disconnection, and the release of          *)
(* display::output_list that follows it.                                   *)
(*                                                                         *)
(* window::on_output_list holds one struct window_output per output the    *)
(* surface is on; an entry is written as the output it points to, which    *)
(* identifies it because surface_handle_enter asserts that the output has  *)
(* no entry yet.  The compositor sends wl_surface.enter for an output it   *)
(* has not yet reported and wl_surface.leave for one it has; an event that *)
(* names a wl_output the client has destroyed carries NULL.                *)
(***************************************************************************)
\* The heap of World and window::on_output_list.
WorldOn == World @@ [on |-> on_output_list]

\* The heap after a step is w, window::on_output_list included.
StepOn(w) ==
  /\ HeapStep(w)
  /\ on_output_list' = w.on
  /\ UNCHANGED <<loop, setup, modes, event, advisory>>

\* The slot xzalloc() returns in output_create(): the first free one, 0
\* when there is none.
FreeOutput(w) ==
  IF \E o \in OutIds : w.output[o].mem = "free"
    THEN CHOOSE o \in OutIds :
           /\ w.output[o].mem = "free"
           /\ \A p \in OutIds : w.output[p].mem = "free" => o <= p
    ELSE 0

\* wl_list_insert(d->output_list.prev, &o->link) of the created output
register_wl_output(w) ==
  LET o == FreeOutput(w)
  IN  [w EXCEPT !.output[o] = output_create,
                !.olist = Append(w.olist, o)]

window_find_window_output(w, o) ==
  IF \E i \in 1 .. Len(w.on) : w.on[i] = o THEN o ELSE 0

\* Mutant: the overlap entry points to the output without a reference.
window_output_create_borrows(w, o) ==
  IF w.fault # "none" THEN w
  ELSE IF o = 0 THEN Fault(w, "null dereference")
  ELSE w

\* wino->output = output_ref(output)
window_output_create(w, o) == output_ref(w, o)

\* wl_list_remove(&wino->link); output_unref(wino->output); free(wino)
window_output_destroy(w, wino) ==
  IF w.fault # "none" THEN w
  ELSE output_unref([w EXCEPT !.on = ListRemove(w.on, wino)], wino)

surface_handle_enter(w, wo) ==
  LET out == output_from_wl_output(w, wo)
  IN  IF out = 0 THEN w
      ELSE IF window_find_window_output(w, out) # 0 THEN Fault(w, "assert")
      ELSE
        LET w1 == window_output_create(w, out)
        IN  IF w1.fault # "none" THEN w1
            ELSE [w1 EXCEPT !.on = <<out>> \o w1.on]

surface_handle_leave(w, wo) ==
  LET out == output_from_wl_output(w, wo)
  IN  IF out = 0 THEN w
      ELSE IF window_find_window_output(w, out) = 0 THEN Fault(w, "assert")
      ELSE window_output_destroy(w, out)

\* wl_list_for_each_safe(wino, wtmp, &window->on_output_list, link)
\*         window_output_destroy(wino);
RECURSIVE LeaveAll(_, _)
LeaveAll(w, l) ==
  IF l = <<>> THEN w
  ELSE LeaveAll(window_output_destroy(w, Head(l)), Tail(l))

\* Mutant: window_destroy() forgets the overlap entries.
window_destroy_on_keeps_entries(w) ==
  [window_destroy(w) EXCEPT !.on = <<>>]

\* window_destroy() of a window that has overlap entries
window_destroy_on(w) ==
  LET w1 == window_destroy(w)
  IN  LeaveAll(w1, w1.on)

\* The submissions a window holds before zalloc() fails in
\* create_submission().
MaxHeld == 1

\* redraw() and the loop condition, as Redraw; create_submission() returns
\* -1 without a submission when zalloc() fails.
RedrawOn ==
  /\ pc = "redraw"
  /\ fault = "none"
  /\ pc' = IF running THEN "dispatch" ELSE "exiting"
  /\ StepOn(IF Len(submissions_list) < MaxHeld
              THEN create_submission(WorldOn, presentation)
              ELSE WorldOn)
  /\ UNCHANGED running

\* registry_handle_global announces a wl_output and the client binds it.
RegistryGlobal ==
  /\ Dispatching
  /\ FreeOutput(WorldOn) # 0
  /\ StepOn(register_wl_output(WorldOn))
  /\ UNCHANGED <<pc, running>>

\* wl_surface.enter naming wo
SurfaceEnter ==
  \E wo \in OutIds \cup {0} :
    /\ Dispatching
    /\ wo \in WlOutputs
    /\ window_find_window_output(WorldOn, wo) = 0
    /\ StepOn(surface_handle_enter(WorldOn, wo))
    /\ UNCHANGED <<pc, running>>

\* wl_surface.leave naming wo
SurfaceLeave ==
  \E wo \in OutIds \cup {0} :
    /\ Dispatching
    /\ wo \in WlOutputs
    /\ wo # 0 => window_find_window_output(WorldOn, wo) # 0
    /\ StepOn(surface_handle_leave(WorldOn, wo))
    /\ UNCHANGED <<pc, running>>

WindowDestroyOn ==
  /\ pc = "exiting"
  /\ fault = "none"
  /\ pc' = "fini"
  /\ StepOn(window_destroy_on(WorldOn))
  /\ UNCHANGED running

\* display_destroy() up to and including wl_display_disconnect()
DisplayDisconnect ==
  /\ pc = "fini"
  /\ fault = "none"
  /\ pc' = "disconnected"
  /\ StepOn(WorldOn)
  /\ UNCHANGED running

\* The rest of display_destroy(): the loop over display::output_list.
\* output_destroy() calls wl_output_destroy() on a proxy whose wl_display
\* wl_display_disconnect() has freed, which is undefined: the build either
\* gets away with it or dies.
DisplayRelease ==
  /\ pc = "disconnected"
  /\ fault = "none"
  /\ pc' = "done"
  /\ \/ StepOn(display_destroy(WorldOn))
     \/ /\ \E o \in OutIds : output[o].mem = "live" /\ output[o].proxy
        /\ StepOn(Fault(WorldOn, "proxy destroyed after disconnect"))
  /\ UNCHANGED running

SpecHotplug ==
  Init /\ [][\/ LoopCheck
             \/ DispatchReturn
             \/ RedrawOn
             \/ SignalInt
             \/ FrameDone
             \/ SyncOutput
             \/ Presented
             \/ Discarded
             \/ GlobalRemove
             \/ RegistryGlobal
             \/ SurfaceEnter
             \/ SurfaceLeave
             \/ WindowDestroyOn
             \/ DisplayDisconnect
             \/ DisplayRelease]_vars

(***************************************************************************)
(* SpecPredict: the predictor and the scheduler of one window, driven by   *)
(* resolutions with arbitrary data and by idle passes.                     *)
(***************************************************************************)
InitPredict ==
  /\ epoch = GfxEpoch
  /\ oc = oring_clock_init(CLOCK_MONOTONIC, epoch)
  /\ hist = <<>>
  /\ op = [name |-> "init", ts |-> epoch]
  /\ q = NoQuery
  /\ held = NoHeld
  /\ aborted = FALSE
  /\ NoClient
  /\ NoPredictor
  /\ NoOther

\* A submission resolves as presented; the predictor's result is scheduled.
ResolvePresented ==
  \E P \in Stamps, D \in Periods, sync \in OutputModels,
     win \in OutputModels :
    LET r == predict_presented(P, D, sync, win)
        s == window_schedule(pending, r.next)
    IN  /\ call' = [name |-> "presented", stamp |-> P, measured |-> D,
                    sync |-> sync, win |-> win, period |-> r.period,
                    next |-> r.next, valid |-> TRUE]
        /\ pending' = s.pending
        /\ logged' = s.logged
        /\ UNCHANGED <<oc, epoch, hist, op, q, held, aborted, heapVars, otherVars>>

\* A submission resolves at its frame callback, without feedback.
ResolveFrameOnly ==
  \E now \in Stamps, win \in OutputModels :
    LET r == predict_frame_only(now, win)
        s == window_schedule(pending, r.next)
    IN  /\ call' = [name |-> "frame", stamp |-> now, measured |-> 0,
                    sync |-> NoOut, win |-> win, period |-> r.period,
                    next |-> r.next, valid |-> TRUE]
        /\ pending' = s.pending
        /\ logged' = s.logged
        /\ UNCHANGED <<oc, epoch, hist, op, q, held, aborted, heapVars, otherVars>>

\* The idle pass of the loop drains the pending target time.
DrainPending ==
  LET d == window_drain_pending(pending)
  IN  /\ call' = [NoCall EXCEPT !.name = "drain", !.next = d.time,
                                !.valid = d.valid]
      /\ pending' = d.pending
      /\ logged' = 0
      /\ UNCHANGED <<oc, epoch, hist, op, q, held, aborted, heapVars, otherVars>>

\* refresh_period_ns() of an output
RefreshPeriod ==
  \E o \in OutputModels :
    /\ o.known
    /\ call' = [NoCall EXCEPT !.name = "refresh", !.sync = o,
                              !.period = output_refresh_period_ns(o)]
    /\ logged' = 0
    /\ UNCHANGED <<oc, epoch, hist, op, q, held, aborted, heapVars, pending,
                   otherVars>>

NextPredict ==
  \/ ResolvePresented
  \/ ResolveFrameOnly
  \/ DrainPending
  \/ RefreshPeriod

SpecPredict == InitPredict /\ [][NextPredict]_vars

(***************************************************************************)
(* SpecResolve: resolve(kind) of the specification, section 4.3.  The      *)
(* submission carries presented_time, which create() leaves invalid and    *)
(* only feedback_presented stamps; the predictor computes from presented   *)
(* data when there is any and from the frame-ready-only data otherwise.    *)
(***************************************************************************)
\* #define INVALID_TIME 0xffffffffffffffffULL
INVALID_TIME == UINT64_MAX

ResolveKinds == {"presented", "discarded", "no-data"}

\* The timing fields of a submission as create() leaves them.
submission_create == [presented_time |-> INVALID_TIME, measured |-> 0]

\* feedback_presented(ts, measured_period, flags)
submission_presented(s, ts, measured_period) ==
  [s EXCEPT !.presented_time = ts, !.measured = measured_period]

\* Mutant: every submission that asked for feedback is predicted from its
\* presented_time, stamped or not.
frame_predictor_by_request(s, feedback, sync, win, now) ==
  IF feedback
    THEN [from |-> "presented_time"]
           @@ predict_presented(s.presented_time, s.measured, sync, win)
    ELSE [from |-> "now"] @@ predict_frame_only(now, win)

\* FramePredictor, invoked by resolve(kind) on the destroyed submission's
\* data: feedback is whether the submission had asked for feedback.
frame_predictor(s, feedback, sync, win, now) ==
  IF s.presented_time # INVALID_TIME
    THEN [from |-> "presented_time"]
           @@ predict_presented(s.presented_time, s.measured, sync, win)
    ELSE [from |-> "now"] @@ predict_frame_only(now, win)

\* A submission resolves as kind; the predictor's result is scheduled.
\* P and D are what the presented event carried, now is the clock's value
\* at the resolution (the latest one when the event carried a stamp).
\* The idle pass has consumed the target of the resolution before.
Resolve ==
  \E kind \in ResolveKinds, win \in OutputModels :
  \E P \in IF kind = "presented" THEN Stamps ELSE {0},
     D \in IF kind = "presented" THEN Periods ELSE {0},
     now \in IF kind = "presented" THEN {MaxStamp} ELSE Stamps,
     sync \in IF kind = "no-data" THEN {NoOut} ELSE OutputModels :
    LET s == IF kind = "presented"
               THEN submission_presented(submission_create, P, D)
               ELSE submission_create
        r == frame_predictor(s, kind # "no-data", sync, win, now)
        t == window_schedule(pending, r.next)
    IN  /\ pending = <<>>
        /\ call' = [name |-> kind, stamp |-> s.presented_time,
                    measured |-> s.measured, sync |-> sync, win |-> win,
                    period |-> r.period, next |-> r.next, valid |-> TRUE,
                    from |-> r.from, now |-> now]
        /\ pending' = t.pending
        /\ logged' = t.logged
        /\ UNCHANGED <<oc, epoch, hist, op, q, held, aborted, heapVars,
                       otherVars>>

SpecResolve == InitPredict /\ [][Resolve \/ DrainPending]_vars

(***************************************************************************)
(* SpecLoop: the blocking event loop of one display, modelled from the     *)
(* specification, section 5: dispatch the queued events, run the           *)
(* scheduler's idle pass, prepare to read, flush, block in the             *)
(* multiplexer, deliver what it reports, test the cancellation flag.       *)
(***************************************************************************)
\* What the multiplexer reports when it returns.
EpollEvents == {"readable", "writable", "hangup", "interrupted"}

\* prepare to block for I/O: announce the intention to read
display_prepare_read(l) ==
  [l EXCEPT !.must_read = TRUE, !.prepared = @ + 1, !.last = "prepare"]

\* complete the prepared read
display_read_events(l) ==
  [l EXCEPT !.must_read = FALSE, !.prepared = @ - 1, !.last = "read"]

\* cancel the prepared read
display_cancel_read(l) ==
  [l EXCEPT !.must_read = FALSE, !.prepared = @ - 1, !.last = "cancel"]

\* flush pending outgoing requests; when the transport is not ready for
\* writing, register interest in writability
display_flush(l, ok) == [l EXCEPT !.want_write = ~ok]

\* Mutant: a wait that a signal interrupted leaves the prepared read alone.
display_deliver_abandons(l, ev) ==
  LET l1 == IF ev = "writable" THEN [l EXCEPT !.want_write = FALSE] ELSE l
  IN  IF ~l1.must_read \/ ev = "interrupted" THEN l1
      ELSE IF ev = "readable" THEN display_read_events(l1)
      ELSE display_cancel_read(l1)

\* deliver the multiplexer's results: a prepared read is completed when
\* the transport is readable and cancelled otherwise
display_deliver(l, ev) ==
  LET l1 == IF ev = "writable" THEN [l EXCEPT !.want_write = FALSE] ELSE l
  IN  IF ~l1.must_read THEN l1
      ELSE IF ev = "readable" THEN display_read_events(l1)
      ELSE display_cancel_read(l1)

InitLoop ==
  /\ epoch = GfxEpoch
  /\ oc = oring_clock_init(CLOCK_MONOTONIC, epoch)
  /\ hist = <<>>
  /\ op = [name |-> "init", ts |-> epoch]
  /\ q = NoQuery
  /\ held = NoHeld
  /\ aborted = FALSE
  /\ presentation = FALSE
  /\ subm = [s \in SubmIds |-> NoSubm]
  /\ submissions_list = <<>>
  /\ cb = [s \in SubmIds |-> "gone"]
  /\ fb = [s \in SubmIds |-> "gone"]
  /\ output = [o \in OutIds |-> NoOutput]
  /\ output_list = <<>>
  /\ zombie = FALSE
  /\ fault = "none"
  /\ printed = [trig |-> 0, trig_live |-> 0, discarded |-> 0, leaked |-> 0]
  /\ running = TRUE
  /\ pc = "dispatch"
  /\ NoPredictor
  /\ loop = NoLoop
  /\ setup = NoSetup
  /\ modes = NoModes
  /\ event = NoEvent
  /\ advisory = NoAdvisory
  /\ on_output_list = NoOn

\* What no step of the loop touches.
LoopFrame ==
  UNCHANGED <<oc, epoch, hist, op, q, held, aborted, presentation, subm,
              submissions_list, cb, fb, output, output_list, zombie, fault,
              printed, setup, modes, event, advisory, on_output_list>>

\* dispatch phase: an event resolves a submission and the predictor's
\* target time t is scheduled
LoopResolve ==
  \E t \in Stamps :
    LET s == window_schedule(pending, BigFromNat(t))
    IN  /\ pc = "dispatch"
        /\ pending' = s.pending
        /\ logged' = s.logged
        /\ call' = [NoCall EXCEPT !.name = "schedule",
                                  !.next = BigFromNat(t), !.valid = TRUE]
        /\ UNCHANGED <<pc, running, loop>>
        /\ LoopFrame

\* dispatch phase ends
LoopDispatched ==
  /\ pc = "dispatch"
  /\ pc' = "idle"
  /\ UNCHANGED <<running, loop, predVars>>
  /\ LoopFrame

\* the scheduler's idle pass: a drained target time is redrawn for
LoopIdle ==
  LET d == window_drain_pending(pending)
  IN  /\ pc = "idle"
      /\ pc' = "prepare"
      /\ pending' = d.pending
      /\ logged' = 0
      /\ call' = [NoCall EXCEPT !.name = "drain", !.next = d.time,
                                !.valid = d.valid]
      /\ UNCHANGED <<running, loop>>
      /\ LoopFrame

LoopPrepare ==
  /\ pc = "prepare"
  /\ pc' = "flush"
  /\ loop' = display_prepare_read(loop)
  /\ UNCHANGED <<running, predVars>>
  /\ LoopFrame

LoopFlush ==
  \E ok \in BOOLEAN :
    /\ pc = "flush"
    /\ pc' = "wait"
    /\ loop' = display_flush(loop, ok)
    /\ UNCHANGED <<running, predVars>>
    /\ LoopFrame

\* the multiplexer returns and its results are delivered
LoopWait ==
  \E ev \in EpollEvents :
    /\ pc = "wait"
    /\ pc' = "check"
    /\ loop' = display_deliver(loop, ev)
    /\ UNCHANGED <<running, predVars>>
    /\ LoopFrame

\* the one point of the pass where the cancellation flag is tested
LoopTest ==
  /\ pc = "check"
  /\ pc' = IF running THEN "dispatch" ELSE "exit"
  /\ UNCHANGED <<running, loop, predVars>>
  /\ LoopFrame

\* the termination signal's handler clears the flag
LoopCancel ==
  /\ pc # "exit"
  /\ running
  /\ running' = FALSE
  /\ UNCHANGED <<pc, loop, predVars>>
  /\ LoopFrame

NextLoop ==
  \/ LoopResolve
  \/ LoopDispatched
  \/ LoopIdle
  \/ LoopPrepare
  \/ LoopFlush
  \/ LoopWait
  \/ LoopTest
  \/ LoopCancel

SpecLoop == InitLoop /\ [][NextLoop]_vars

(***************************************************************************)
(* SpecSetup: display_connect().  The two roundtrips deliver the globals   *)
(* and then the initial events of the bound globals; the clock of          *)
(* display::gfx_clock is chosen from what they left in struct display.     *)
(***************************************************************************)
MaxClockEvents == 2

\* The clk_id values a compositor sends: CLOCK_REALTIME, CLOCK_MONOTONIC,
\* CLOCK_MONOTONIC_RAW, CLOCK_BOOTTIME, and the number cal.c keeps for
\* "not received".
ClockIds == {0, CLOCK_MONOTONIC, 4, 7, INVALID_CLOCK_ID}

\* d = xzalloc(sizeof(*d)): gfx_clock before oring_clock_init_now
ZeroTime == [tv_sec |-> 0, tv_nsec |-> 0]

ZeroClock ==
  [clock_id |-> 0, base |-> ZeroTime, offset |-> 0, frozen |-> FALSE]

\* presentation_clock_id
presentation_clock_id(d, clk_id) ==
  [d EXCEPT !.clock_id = clk_id, !.received = Append(@, clk_id)]

\* Mutant: without a clock id from the presentation extension the
\* monotonic clock is used and a warning is printed.
display_connect_falls_back(d, pres) ==
  IF ~pres \/ d.clock_id = INVALID_CLOCK_ID
    THEN [d EXCEPT !.phase = "ready", !.warned = TRUE,
                   !.clock_id = CLOCK_MONOTONIC]
  ELSE [d EXCEPT !.phase = "ready"]

\* display_connect, after the roundtrips: if (!d->presentation) ... else ...
display_connect(d, pres) ==
  IF ~pres
    THEN [d EXCEPT !.phase = "ready", !.warned = TRUE,
                   !.clock_id = CLOCK_MONOTONIC]
  ELSE IF d.clock_id = INVALID_CLOCK_ID
    THEN [d EXCEPT !.phase = "failed", !.error = TRUE]
  ELSE [d EXCEPT !.phase = "ready"]

InitSetup ==
  /\ epoch = ZeroTime
  /\ oc = ZeroClock
  /\ hist = <<>>
  /\ op = [name |-> "none", ts |-> ZeroTime]
  /\ q = NoQuery
  /\ held = NoHeld
  /\ aborted = FALSE
  /\ NoClient
  /\ NoPredictor
  /\ loop = NoLoop
  /\ modes = NoModes
  /\ event = NoEvent
  /\ advisory = NoAdvisory
  /\ on_output_list = NoOn
  /\ setup = [NoSetup EXCEPT !.phase = "globals"]

\* What display_connect() leaves alone.
SetupFrame ==
  UNCHANGED <<hist, q, held, subm, submissions_list, cb, fb, output,
              output_list, zombie, running, pc, printed, predVars, loop,
              modes, event, advisory, on_output_list>>

\* registry_handle_global announces wp_presentation: register_wp_presentation
RegisterPresentation ==
  /\ setup.phase = "globals"
  /\ fault = "none"
  /\ IF presentation
       THEN fault' = "assert" /\ aborted' = TRUE /\ UNCHANGED presentation
     ELSE presentation' = TRUE /\ UNCHANGED <<fault, aborted>>
  /\ UNCHANGED <<oc, epoch, op, setup>>
  /\ SetupFrame

\* the first wl_display_roundtrip returns
GlobalsDone ==
  /\ setup.phase = "globals"
  /\ fault = "none"
  /\ setup' = [setup EXCEPT !.phase = "events"]
  /\ UNCHANGED <<oc, epoch, op, presentation, fault, aborted>>
  /\ SetupFrame

\* the second roundtrip dispatches a wp_presentation.clock_id event
ClockIdEvent ==
  \E clk_id \in ClockIds :
    /\ setup.phase = "events"
    /\ presentation
    /\ Len(setup.received) < MaxClockEvents
    /\ setup' = presentation_clock_id(setup, clk_id)
    /\ UNCHANGED <<oc, epoch, op, presentation, fault, aborted>>
    /\ SetupFrame

\* the second roundtrip returns: the clock is chosen, and
\* oring_clock_init_now reads it
DisplayConnect ==
  \E now \in Epochs :
    LET d == display_connect(setup, presentation)
    IN  /\ setup.phase = "events"
        /\ setup' = d
        /\ IF d.phase = "ready"
             THEN /\ oc' = oring_clock_init(d.clock_id, now)
                  /\ epoch' = now
                  /\ op' = [name |-> "init", ts |-> now]
                  /\ UNCHANGED fault
           ELSE /\ fault' = "exit"
                /\ UNCHANGED <<oc, epoch, op>>
        /\ UNCHANGED <<presentation, aborted>>
        /\ SetupFrame

NextSetup ==
  \/ RegisterPresentation
  \/ GlobalsDone
  \/ ClockIdEvent
  \/ DisplayConnect

SpecSetup == InitSetup /\ [][NextSetup]_vars

(***************************************************************************)
(* SpecOutput: the wl_output events of one output, from output_create()    *)
(* on: any sequence of mode events, and done.                              *)
(***************************************************************************)
MaxModes == 3

WL_OUTPUT_MODE_CURRENT == 1

\* flags of a mode event: WL_OUTPUT_MODE_CURRENT and WL_OUTPUT_MODE_PREFERRED
ModeFlags == 0 .. 3

\* width and height of the modes announced
ModeSizes == {1}

Vidmodes ==
  [flags : ModeFlags, width : ModeSizes, height : ModeSizes,
   millihz : Rates]

\* flags & WL_OUTPUT_MODE_CURRENT
FlaggedCurrent(flags) == (flags \div WL_OUTPUT_MODE_CURRENT) % 2 = 1

\* Mutant: wl_list_insert(&o->mode_list, &mode->link), at the head.
output_handle_mode_prepends(o, flags, width, height, refresh) ==
  LET mode == [flags |-> flags, width |-> width, height |-> height,
               millihz |-> refresh]
      shifted == IF o.current = 0 THEN 0 ELSE o.current + 1
  IN  [o EXCEPT !.mode_list = <<mode>> \o @,
                !.current = IF FlaggedCurrent(flags) THEN 1 ELSE shifted,
                !.received = Append(@, mode)]

\* output_handle_mode: wl_list_insert(o->mode_list.prev, &mode->link)
\* appends; o->current = mode when the event is flagged current.
output_handle_mode(o, flags, width, height, refresh) ==
  LET mode == [flags |-> flags, width |-> width, height |-> height,
               millihz |-> refresh]
  IN  [o EXCEPT !.mode_list = Append(@, mode),
                !.current = IF FlaggedCurrent(flags)
                              THEN Len(o.mode_list) + 1 ELSE @,
                !.received = Append(@, mode)]

\* output_handle_done
output_handle_done(o) == [o EXCEPT !.done = TRUE]

InitOutput ==
  /\ epoch = GfxEpoch
  /\ oc = oring_clock_init(CLOCK_MONOTONIC, epoch)
  /\ hist = <<>>
  /\ op = [name |-> "init", ts |-> epoch]
  /\ q = NoQuery
  /\ held = NoHeld
  /\ aborted = FALSE
  /\ NoClient
  /\ NoPredictor
  /\ loop = NoLoop
  /\ setup = NoSetup
  /\ modes = NoModes
  /\ event = NoEvent
  /\ advisory = NoAdvisory
  /\ on_output_list = NoOn

\* wl_output.mode
OutputMode ==
  \E m \in Vidmodes :
    /\ Len(modes.received) < MaxModes
    /\ modes' = output_handle_mode(modes, m.flags, m.width, m.height,
                                   m.millihz)
    /\ UNCHANGED <<oc, epoch, hist, op, q, held, aborted, heapVars,
                   predVars, loop, setup, event, advisory,
                   on_output_list>>

\* wl_output.done
OutputDone ==
  /\ modes' = output_handle_done(modes)
  /\ UNCHANGED <<oc, epoch, hist, op, q, held, aborted, heapVars,
                 predVars, loop, setup, event, advisory,
                   on_output_list>>

NextOutput == OutputMode \/ OutputDone

SpecOutput == InitOutput /\ [][NextOutput]_vars

(***************************************************************************)
(* SpecContract: Spec, and a compositor that breaks the protocol once: an  *)
(* event reaches the handler of submission s with a handle h that is not   *)
(* the one s holds.  Handle h is the proxy that was created for slot h;    *)
(* subm->frame and subm->feedback of slot s are its own proxy while the    *)
(* field is set and NULL otherwise.                                        *)
(***************************************************************************)
\* cb == subm->frame
HoldsFrame(w, s, h) == w.subm[s].frame /\ h = s

\* feedback == subm->feedback
HoldsFeedback(w, s, h) == w.subm[s].feedback /\ h = s

\* frame_callback_handle_done(data = s, cb = h): assert(cb == subm->frame)
frame_callback_handle_done_on(w, s, h, pres) ==
  IF w.subm[s].mem # "live" THEN Fault(w, "use after free")
  ELSE IF ~HoldsFrame(w, s, h) THEN Fault(w, "assert")
  ELSE frame_callback_handle_done(w, s, pres)

\* feedback_handle_sync_output(data = s, feedback = h, wo): the feedback
\* argument is not looked at
feedback_handle_sync_output_on(w, s, h, wo) ==
  feedback_handle_sync_output(w, s, wo)

\* feedback_handle_presented(data = s, feedback = h, ...):
\* submission_feedback_destroy asserts feedback == subm->feedback after
\* the asserts on frame_done and on the timestamp
feedback_handle_presented_on(w, s, h, clock, tm) ==
  IF w.subm[s].mem # "live" THEN Fault(w, "use after free")
  ELSE IF ~w.subm[s].frame_done THEN Fault(w, "assert")
  ELSE IF ~oring_clock_get_nsec(clock, tm).ok THEN Fault(w, "assert")
  ELSE IF ~HoldsFeedback(w, s, h) THEN Fault(w, "assert")
  ELSE feedback_handle_presented(w, s, clock, tm)

\* feedback_handle_discarded(data = s, feedback = h): the warning is
\* printed before submission_feedback_destroy asserts
feedback_handle_discarded_on(w, s, h) ==
  IF w.subm[s].mem # "live"
    THEN Fault([w EXCEPT !.discarded = @ + 1], "use after free")
  ELSE IF ~HoldsFeedback(w, s, h)
    THEN Fault([w EXCEPT !.discarded = @ + 1], "assert")
  ELSE feedback_handle_discarded(w, s)

\* The handler named ran for submission s with handle h and left the heap
\* as w.
Misdelivered(w, handler, s, h) ==
  /\ Dispatching
  /\ event = NoEvent
  /\ subm[s].mem = "live"
  /\ HeapStep(w)
  /\ event' = [handler |-> handler, subm |-> s, handle |-> h]
  /\ UNCHANGED <<pc, running, loop, setup, modes, advisory, on_output_list>>

StrayFrameDone ==
  \E s \in SubmIds, h \in SubmIds :
    /\ ~HoldsFrame(World, s, h)
    /\ Misdelivered(frame_callback_handle_done_on(World, s, h, presentation),
                    "frame_done", s, h)

StraySyncOutput ==
  \E s \in SubmIds, h \in SubmIds, wo \in OutIds \cup {0} :
    /\ ~HoldsFeedback(World, s, h)
    /\ wo \in WlOutputs
    /\ Misdelivered(feedback_handle_sync_output_on(World, s, h, wo),
                    "sync_output", s, h)

StrayPresented ==
  \E s \in SubmIds, h \in SubmIds, tm \in PresentTimes :
    /\ ~HoldsFeedback(World, s, h)
    /\ DeltaRepresentable(oc, tm)
    /\ Misdelivered(feedback_handle_presented_on(World, s, h, oc, tm),
                    "presented", s, h)

StrayDiscarded ==
  \E s \in SubmIds, h \in SubmIds :
    /\ ~HoldsFeedback(World, s, h)
    /\ Misdelivered(feedback_handle_discarded_on(World, s, h),
                    "discarded", s, h)

NextContract ==
  \/ LoopCheck
  \/ DispatchReturn
  \/ Redraw
  \/ SignalInt
  \/ FrameDone
  \/ SyncOutput
  \/ Presented
  \/ Discarded
  \/ GlobalRemove
  \/ WindowDestroy
  \/ DisplayDestroy
  \/ StrayFrameDone
  \/ StraySyncOutput
  \/ StrayPresented
  \/ StrayDiscarded

SpecContract == Init /\ [][NextContract]_vars

(***************************************************************************)
(* SpecAdvisory: the warnings of one session.  Presented and discarded     *)
(* events arrive in any order; the warning for a missing quality flag of   *)
(* a presented event follows the specification, section 7, with            *)
(* display::warned_flags as its memory, and the warning for a discarded    *)
(* frame follows feedback_handle_discarded.                                *)
(***************************************************************************)
MaxFeedback == 3

\* The flags whose absence is warned about, in the order they are tested.
QualityFlags == <<"vsync", "hw_clock", "hw_completion">>

\* The flags a presented event can carry.
FeedbackKinds == {"vsync", "hw_clock", "hw_completion", "zero_copy"}

\* Mutant: the warning is written for every event that lacks the flag.
feedback_presented_warn_every_time(a, flags) ==
  LET new == SelectSeq(QualityFlags, LAMBDA f : f \notin flags)
  IN  [a EXCEPT !.warned_flags = @ \cup {new[i] : i \in DOMAIN new},
                !.lacked = [f \in DOMAIN @ |->
                             IF f \in flags THEN @[f] ELSE @[f] + 1],
                !.warnings = @ \o new,
                !.events = @ + 1,
                !.last = "presented"]

\* presented: warn once per missing quality flag
feedback_presented_warn(a, flags) ==
  LET missing == SelectSeq(QualityFlags, LAMBDA f : f \notin flags)
      new == SelectSeq(missing, LAMBDA f : f \notin a.warned_flags)
  IN  [a EXCEPT !.warned_flags = @ \cup {new[i] : i \in DOMAIN new},
                !.lacked = [f \in DOMAIN @ |->
                             IF f \in flags THEN @[f] ELSE @[f] + 1],
                !.warnings = @ \o new,
                !.events = @ + 1,
                !.last = "presented"]

\* fprintf(stderr, "Warning: frame discarded unexpectedly.\n")
feedback_discarded_warn(a) ==
  [a EXCEPT !.warnings = Append(@, "discarded"), !.discards = @ + 1,
            !.events = @ + 1, !.last = "discarded"]

InitAdvisory ==
  /\ epoch = GfxEpoch
  /\ oc = oring_clock_init(CLOCK_MONOTONIC, epoch)
  /\ hist = <<>>
  /\ op = [name |-> "init", ts |-> epoch]
  /\ q = NoQuery
  /\ held = NoHeld
  /\ aborted = FALSE
  /\ presentation = TRUE
  /\ subm = [s \in SubmIds |-> NoSubm]
  /\ submissions_list = <<>>
  /\ cb = [s \in SubmIds |-> "gone"]
  /\ fb = [s \in SubmIds |-> "gone"]
  /\ output = [o \in OutIds |-> NoOutput]
  /\ output_list = <<>>
  /\ zombie = FALSE
  /\ fault = "none"
  /\ printed = [trig |-> 0, trig_live |-> 0, discarded |-> 0, leaked |-> 0]
  /\ running = TRUE
  /\ pc = "dispatch"
  /\ NoPredictor
  /\ NoOther

\* What the feedback events of this specification leave alone.
AdvisoryFrame ==
  UNCHANGED <<oc, epoch, hist, op, q, held, aborted, heapVars, predVars,
              loop, setup, modes, event, on_output_list>>

AdvisePresented ==
  \E flags \in SUBSET FeedbackKinds :
    /\ advisory.events < MaxFeedback
    /\ advisory' = feedback_presented_warn(advisory, flags)
    /\ AdvisoryFrame

AdviseDiscarded ==
  /\ advisory.events < MaxFeedback
  /\ advisory' = feedback_discarded_warn(advisory)
  /\ AdvisoryFrame

SpecAdvisory == InitAdvisory /\ [][AdvisePresented \/ AdviseDiscarded]_vars

(***************************************************************************)
(* Properties of the clock.                                                *)
(***************************************************************************)
\* The instant of the last init/freeze/thaw call that succeeded.
LastTransition == IF hist = <<>> THEN epoch ELSE hist[Len(hist)]

\* Total length of the thawed intervals between start and ts, for a clock
\* thawed at start whose later transitions (freeze, thaw, freeze, ...) are h.
RECURSIVE ThawedLength(_, _, _)
ThawedLength(h, start, ts) ==
  IF h = <<>> THEN Nsec(ts) - Nsec(start)
  ELSE IF Len(h) = 1 THEN Nsec(h[1]) - Nsec(start)
  ELSE (Nsec(h[1]) - Nsec(start)) + ThawedLength(SubSeq(h, 3, Len(h)), h[2], ts)

\* C1: a clock initialised with epoch E and never frozen returns 0 for a
\* query at E and exactly d for a query at E + d, d >= 0.
C1_NeverFrozenIdentity ==
  (op.name = "get" /\ hist = <<>> /\ Nsec(op.ts) >= Nsec(epoch))
    => (/\ q.ok
        /\ q.val = Nsec(op.ts) - Nsec(epoch)
        /\ (op.ts = epoch => q.val = 0))

C1_Witness ==
  /\ op.name = "get"
  /\ hist = <<>>
  /\ Nsec(op.ts) >= Nsec(epoch) + 3
  /\ q.ok
  /\ q.val = Nsec(op.ts) - Nsec(epoch)

\* C2: frozen intervals contribute nothing: a query at or after the last
\* transition returns the total length of the thawed intervals since the
\* epoch; after init at E, freeze at t1, thaw at t2 > t1, a query at t3 > t2
\* returns (t1 - E) + (t3 - t2).
C2_FrozenIntervalsExcluded ==
  (op.name = "get" /\ Nsec(op.ts) >= Nsec(LastTransition))
    => (/\ q.ok
        /\ q.val = ThawedLength(hist, epoch, op.ts)
        /\ (Len(hist) = 2 /\ Nsec(hist[2]) > Nsec(hist[1])
                          /\ Nsec(op.ts) > Nsec(hist[2])
              => q.val = (Nsec(hist[1]) - Nsec(epoch))
                          + (Nsec(op.ts) - Nsec(hist[2]))))

C2_Witness ==
  /\ op.name = "get"
  /\ Len(hist) = 4
  /\ Nsec(hist[1]) > Nsec(epoch)
  /\ Nsec(hist[2]) > Nsec(hist[1])
  /\ Nsec(hist[3]) > Nsec(hist[2])
  /\ Nsec(hist[4]) > Nsec(hist[3])
  /\ Nsec(op.ts) > Nsec(hist[4])
  /\ q.ok
  /\ q.val = 3

\* C3: while the clock is frozen, a query at any timestamp at or after the
\* freeze point returns the clock value at the freeze point, which is the
\* accumulated offset.
C3_FrozenQueryClamped ==
  (op.name = "get" /\ oc.frozen /\ Nsec(op.ts) >= Nsec(LastTransition))
    => (/\ q.ok
        /\ q.val = oc.offset
        /\ q.val = ThawedLength(hist, epoch, LastTransition))

C3_Witness ==
  /\ op.name = "get"
  /\ oc.frozen
  /\ Len(hist) = 3
  /\ Nsec(op.ts) >= Nsec(LastTransition) + 2
  /\ q.ok
  /\ q.val = oc.offset
  /\ oc.offset >= 2

\* C4 as stated: the offset never decreases, and of two queries at
\* ts1 <= ts2, each made at or after the most recent transition, the first
\* returns no more than the second.
C4_Original ==
  [][/\ oc'.offset >= oc.offset
     /\ (op'.name = "get" /\ q'.ok /\ held.set
           /\ Nsec(op'.ts) >= Nsec(oc.base)
           /\ Nsec(held.ts) <= Nsec(op'.ts)
         => held.val <= q'.val)]_vars

\* C4 as amended: the same, provided no freeze or thaw made after the first
\* query carries a timestamp earlier than that query's.
C4_Monotonic ==
  [][/\ oc'.offset >= oc.offset
     /\ (op'.name = "get" /\ q'.ok /\ held.set /\ ~held.early
           /\ Nsec(op'.ts) >= Nsec(oc.base)
           /\ Nsec(held.ts) <= Nsec(op'.ts)
         => held.val <= q'.val)]_vars

C4_Witness ==
  /\ op.name = "get"
  /\ q.ok
  /\ held.set
  /\ ~held.early
  /\ ~oc.frozen
  /\ oc.offset > held.val
  /\ Nsec(op.ts) > Nsec(oc.base)
  /\ Nsec(oc.base) > Nsec(held.ts)
  /\ q.val > held.val

\* C5: freeze(now) on a frozen clock, or with now before base, fails an
\* assert() and leaves offset, base and frozen as they were; otherwise it
\* sets offset += now - base, base = now, frozen = true.
C5_FreezeContract ==
  [][op'.name = "freeze"
       => IF oc.frozen \/ Nsec(op'.ts) < Nsec(oc.base)
            THEN aborted' /\ oc' = oc
            ELSE /\ ~aborted'
                 /\ oc'.offset = oc.offset + (Nsec(op'.ts) - Nsec(oc.base))
                 /\ oc'.base = op'.ts
                 /\ oc'.frozen = TRUE]_vars

C5_Witness ==
  /\ op.name = "freeze"
  /\ aborted
  /\ oc.frozen
  /\ Nsec(op.ts) > Nsec(oc.base)

\* C6: thaw(now) is accepted only on a frozen clock with now at or after the
\* freeze timestamp; it sets base = now, frozen = false and keeps offset, so
\* the clock value continues from the value at the freeze point.  Any other
\* thaw fails an assert().
C6_ThawContract ==
  [][op'.name = "thaw"
       => IF ~oc.frozen \/ Nsec(op'.ts) < Nsec(oc.base)
            THEN aborted' /\ oc' = oc
            ELSE /\ ~aborted'
                 /\ oc'.base = op'.ts
                 /\ oc'.frozen = FALSE
                 /\ oc'.offset = oc.offset
                 /\ oring_clock_get_nsec(oc', op'.ts)
                      = oring_clock_get_nsec(oc, op'.ts)
                 /\ oring_clock_get_nsec(oc', op'.ts).val = oc.offset]_vars

C6_Witness ==
  /\ op.name = "thaw"
  /\ ~aborted
  /\ Len(hist) = 2
  /\ Nsec(hist[2]) > Nsec(hist[1])
  /\ oc.offset > 0
  /\ oc.base = hist[2]

\* C7: in every reachable clock state offset <= base - epoch, so a query at
\* a timestamp before the epoch fails an assert() and returns no value.
C7_BeforeEpochRejected ==
  /\ oc.offset <= Nsec(oc.base) - Nsec(epoch)
  /\ (op.name = "get" /\ Nsec(op.ts) < Nsec(epoch) => ~q.ok /\ aborted)
  /\ \A ts \in Timespecs :
       Nsec(ts) < Nsec(epoch) => ~oring_clock_get_nsec(oc, ts).ok

C7_Witness ==
  /\ op.name = "get"
  /\ Nsec(op.ts) < Nsec(epoch)
  /\ aborted
  /\ Len(hist) >= 2
  /\ oc.offset > 0

(***************************************************************************)
(* Properties of submissions.                                              *)
(***************************************************************************)
\* The submission in slot s waits for its frame callback.
Created(s) == subm[s].mem = "live" /\ subm[s].frame /\ ~subm[s].frame_done

\* The frame callback of the submission in slot s has fired.
FrameReady(s) == subm[s].mem = "live" /\ subm[s].frame_done

InList(l, s) == \E i \in 1 .. Len(l) : l[i] = s

\* C8: every submission is resolved at most once and by one path only:
\* a step that prints "Trigger" prints it once, for one submission that
\* was alive before the step and is destroyed by it, and the step is a
\* presented or discarded event when presentation feedback is supported
\* and a frame done event when it is not.  A destroyed submission is not
\* in the window's list and has neither a frame callback nor a feedback
\* object left through which an event could reach it, and no handler ever
\* runs on a destroyed submission or destroys a proxy twice.
C8_ResolvedOnceByOnePath ==
  [][/\ fault' \notin {"use after free", "proxy destroyed twice"}
     /\ \A s \in SubmIds :
          subm'[s].mem # "live" =>
            /\ cb'[s] # "live"
            /\ fb'[s] # "live"
            /\ ~InList(submissions_list', s)
     /\ printed'.trig <= 1
     /\ printed'.trig = 1 =>
          \E s \in SubmIds :
            /\ subm[s].mem = "live"
            /\ InList(submissions_list, s)
            /\ subm'[s].mem # "live"
            /\ \A t \in SubmIds \ {s} : subm'[t] = subm[t]
            /\ IF presentation
                 THEN \/ DiscardedAt(s)
                      \/ \E tm \in PresentTimes : PresentedAt(s, tm)
                 ELSE FrameDoneAt(s)]_vars

\* A submission has just been resolved through presentation feedback while
\* another one is still in flight.
C8_Witness ==
  /\ presentation
  /\ printed.trig = 1
  /\ fault = "none"
  /\ \E s, t \in SubmIds : subm[s].mem = "live" /\ subm[t].mem = "free"

\* C9: the first sync_output report for a submission, naming an output the
\* client knows, records that output in the submission and takes one
\* reference on it; a report for a submission that already has a
\* sync_output changes neither the submission nor any output.
C9_FirstSyncOutputOnly ==
  [][\A s \in SubmIds, wo \in OutIds \cup {0} :
       SyncOutputAt(s, wo) =>
         IF subm[s].sync_output = 0
           THEN wo # 0 =>
                  /\ fault' = "none"
                  /\ subm'[s] = [subm[s] EXCEPT !.sync_output = wo]
                  /\ output'[wo] =
                       [output[wo] EXCEPT !.refcount = @ + 1]
                  /\ \A o \in OutIds \ {wo} : output'[o] = output[o]
           ELSE /\ fault' = "none"
                /\ subm' = subm
                /\ output' = output
                /\ output_list' = output_list]_vars

\* A submission holds its reference on the output of its first report while
\* a report naming another output can still arrive for it.
C9_Witness ==
  /\ Dispatching
  /\ \E s \in SubmIds, wo \in WlOutputs :
       /\ fb[s] = "live"
       /\ wo # 0
       /\ subm[s].sync_output \notin {0, wo}
       /\ output[subm[s].sync_output].refcount = 2

\* C10: the frame done event of a submission releases the frame callback.
\* Without presentation feedback the submission is resolved by that event;
\* with it the submission stays in the list, unresolved, with its feedback
\* object alive, and from then on the only steps that touch it are a
\* sync_output report, which leaves it alive, the presented or discarded
\* event that resolves it, and the destruction of the window.
C10_FrameReady ==
  [][\A s \in SubmIds :
       /\ (FrameDoneAt(s) /\ Created(s)) =>
            /\ fault' = "none"
            /\ cb'[s] = "gone"
            /\ IF presentation
                 THEN /\ subm'[s] = [subm[s] EXCEPT !.frame = FALSE,
                                                    !.frame_done = TRUE]
                      /\ fb'[s] = "live"
                      /\ InList(submissions_list', s)
                      /\ printed'.trig = 0
                 ELSE /\ subm'[s].mem # "live"
                      /\ ~InList(submissions_list', s)
                      /\ printed'.trig = 1
       /\ (presentation /\ FrameReady(s) /\ subm'[s] # subm[s]) =>
            \/ /\ printed'.trig = 1
               /\ \/ DiscardedAt(s)
                  \/ \E tm \in PresentTimes : PresentedAt(s, tm)
            \/ /\ printed'.trig = 0
               /\ WindowDestroy
            \/ /\ printed'.trig = 0
               /\ FrameReady(s)'
               /\ \E wo \in OutIds : SyncOutputAt(s, wo)]_vars

\* With presentation feedback, a submission whose frame callback has fired
\* is still in the list and waits for its feedback.
C10_Witness ==
  /\ presentation
  /\ fault = "none"
  /\ \E s \in SubmIds :
       /\ FrameReady(s)
       /\ cb[s] = "gone"
       /\ fb[s] = "live"
       /\ InList(submissions_list, s)

\* C11: a presented event is accepted only for a submission whose frame
\* callback has fired: a presented event that resolves a submission finds
\* it in state FrameReady, and one that arrives before the frame callback
\* fails the handler's assertion, prints no "Trigger" and leaves the
\* submission, the list and the proxies as they were.
C11_PresentedOnlyWhenFrameReady ==
  [][\A s \in SubmIds, tm \in PresentTimes :
       PresentedAt(s, tm) =>
         /\ printed'.trig >= 1 => FrameReady(s)
         /\ ~FrameReady(s) =>
              /\ fault' = "assert"
              /\ printed'.trig = 0
              /\ subm' = subm
              /\ submissions_list' = submissions_list
              /\ cb' = cb
              /\ fb' = fb
              /\ output' = output]_vars

\* The process has died on an assertion while no submission had its frame
\* callback fired and one of them had its feedback outstanding.
C11_Witness ==
  /\ fault = "assert"
  /\ \A t \in SubmIds : ~FrameReady(t)
  /\ \E s \in SubmIds : Created(s) /\ fb[s] = "live"

Resolves(s) ==
  /\ subm[s].mem = "live"
  /\ fault' = "none"
  /\ \/ ~presentation /\ FrameDoneAt(s)
     \/ DiscardedAt(s)
     \/ \E tm \in PresentTimes : PresentedAt(s, tm)

\* The reference on output o that a destroyed submission held is given
\* back: the count drops by one, and the output is destroyed at zero.
Unreferenced(o) ==
  IF output[o].refcount = 1
    THEN output'[o].mem = "free" /\ ~InList(output_list', o)
    ELSE output'[o] = [output[o] EXCEPT !.refcount = @ - 1]

\* C13: every resolution, whether by presented, by discarded or by the
\* frame callback alone, destroys the submission (it leaves the window's
\* list, its frame callback and feedback object are gone and its
\* sync_output reference is given back) and prints "Trigger" exactly once
\* in the same step, after the destruction: no "Trigger" is ever printed
\* while the submission it is about is still allocated, and a step that
\* resolves nothing prints none.
C13_DestroyThenTriggerOnce ==
  [][/\ printed'.trig_live = 0
     /\ printed'.trig >= 1 => \E s \in SubmIds : Resolves(s)
     /\ \A s \in SubmIds :
          Resolves(s) =>
            /\ printed'.trig = 1
            /\ subm'[s].mem # "live"
            /\ ~InList(submissions_list', s)
            /\ cb'[s] = "gone"
            /\ fb'[s] = "gone"
            /\ subm[s].sync_output # 0 => Unreferenced(subm[s].sync_output)
            /\ \A o \in OutIds \ {subm[s].sync_output} :
                 output'[o] = output[o]]_vars

\* Without presentation feedback a frame callback has just resolved a
\* submission and printed "Trigger" once.
C13_Witness ==
  /\ ~presentation
  /\ fault = "none"
  /\ printed.trig = 1
  /\ printed.trig_live = 0
  /\ \E s \in SubmIds : subm[s].mem = "free"

\* The live submissions that hold a reference on output o.
Holders(o) ==
  {s \in SubmIds : subm[s].mem = "live" /\ subm[s].sync_output = o}

\* C14: destroying the window releases every outstanding submission,
\* whatever its state and however many there are: afterwards no submission
\* record, frame callback or feedback object is left, the list is empty,
\* every output has lost exactly the references the submissions held on it
\* (and is destroyed when none is left), nothing has failed and no
\* "Trigger" was printed.
C14_WindowDestroyReleasesAll ==
  [][WindowDestroy =>
       /\ fault' = "none"
       /\ printed'.trig = 0
       /\ submissions_list' = <<>>
       /\ \A s \in SubmIds :
            /\ subm'[s] = NoSubm
            /\ cb'[s] = "gone"
            /\ fb'[s] = "gone"
       /\ \A o \in OutIds :
            IF output[o].mem # "live" THEN output'[o] = output[o]
            ELSE IF output[o].refcount = Cardinality(Holders(o))
              THEN output'[o] = NoOutput /\ ~InList(output_list', o)
            ELSE output'[o] =
                   [output[o] EXCEPT !.refcount = @ - Cardinality(Holders(o))]
     ]_vars

\* The window is about to be destroyed with as many submissions
\* outstanding as there can be, in both states, one of them holding a
\* reference on its sync output.
C14_Witness ==
  /\ pc = "exiting"
  /\ fault = "none"
  /\ \A s \in SubmIds : subm[s].mem = "live"
  /\ \E s, t \in SubmIds :
       /\ Created(s)
       /\ FrameReady(t)
       /\ subm[t].sync_output # 0

(***************************************************************************)
(* Properties of the predictor and the scheduler.                          *)
(***************************************************************************)
\* C15: when a submission resolves as presented with presented_time P and
\* a non-zero measured refresh period D, the next target time, which is
\* the one left pending for the window, is exactly P + D, whatever the
\* outputs say.
C15_PresentedMeasured ==
  (call.name = "presented" /\ call.measured # 0)
    => /\ call.next = BigFromNat(call.stamp + call.measured)
       /\ pending = <<call.next>>

\* A resolution with a measured period, a sync output with a current mode
\* and a positive presented time.
C15_Witness ==
  /\ call.name = "presented"
  /\ call.measured # 0
  /\ call.stamp # 0
  /\ call.sync.known
  /\ call.sync.current # 0

\* The claim as stated, with a period of 16_666_666_666 ns for 60000 mHz.
C16_Original ==
  (/\ call.name = "presented"
   /\ call.measured = 0
   /\ call.sync.known
   /\ call.sync.current = DefaultMillihz)
    => call.next = BigAdd(BigFromNat(call.stamp), <<16, 666, 666, 666>>)

\* C16: when a submission resolves as presented with presented_time P, a
\* measured refresh period of zero and a known sync output whose current
\* mode is 60000 millihertz, the next target time is P + 16_666_666 ns:
\* the period is the integer quotient 1_000_000_000_000 / 60000, that is
\* period * 60000 <= 1_000_000_000_000 < (period + 1) * 60000.
C16_PresentedFallback ==
  (/\ call.name = "presented"
   /\ call.measured = 0
   /\ call.sync.known
   /\ call.sync.current = DefaultMillihz)
    => /\ call.next = BigFromNat(call.stamp + 16666666)
       /\ pending = <<call.next>>
       /\ ~BigLess(PSEC_PER_SEC, BigMul(call.period, DefaultMillihz))
       /\ BigLess(PSEC_PER_SEC,
                  BigMul(BigAdd(call.period, <<1>>), DefaultMillihz))

\* A resolution without a measured period whose sync output runs at 60000
\* millihertz while the window's output runs at another rate.
C16_Witness ==
  /\ call.name = "presented"
  /\ call.measured = 0
  /\ call.stamp # 0
  /\ call.sync.known
  /\ call.sync.current = DefaultMillihz
  /\ call.win.known
  /\ call.win.current \notin {0, DefaultMillihz}

\* The rate refresh_period_ns() works with for a known output.
RateOf(o) == IF o.current = 0 THEN DefaultMillihz ELSE o.current

\* p is the integer quotient 1_000_000_000_000 / rate.
IsPeriodOf(p, rate) ==
  /\ ~BigLess(PSEC_PER_SEC, BigMul(p, rate))
  /\ BigLess(PSEC_PER_SEC, BigMul(BigAdd(p, <<1>>), rate))

\* C17: the period the presented path predicts with is the measured
\* period whenever that is non-zero; when it is zero it is the refresh
\* period of the sync output if one is known, otherwise that of the output
\* the window overlaps if there is one, otherwise the 60 Hz default of
\* 16_666_666 ns.
C17_PeriodPriority ==
  call.name = "presented"
    => /\ call.measured # 0 => call.period = BigFromNat(call.measured)
       /\ (call.measured = 0 /\ call.sync.known)
            => IsPeriodOf(call.period, RateOf(call.sync))
       /\ (call.measured = 0 /\ ~call.sync.known /\ call.win.known)
            => IsPeriodOf(call.period, RateOf(call.win))
       /\ (call.measured = 0 /\ ~call.sync.known /\ ~call.win.known)
            => call.period = <<16, 666, 666>>

\* No measured period, and the sync output and the window's output run at
\* different rates.
C17_Witness ==
  /\ call.name = "presented"
  /\ call.measured = 0
  /\ call.sync.known
  /\ call.win.known
  /\ call.sync.current # 0
  /\ call.win.current # 0
  /\ call.sync.current # call.win.current

\* C18: when a submission resolves at its frame callback without
\* presentation feedback, the next target time is now + period * 3 / 2
\* with the product taken first and the quotient truncated, that is
\* 2 * (next - now) <= 3 * period < 2 * (next - now) + 2, where period is
\* the refresh period of the output the window overlaps, or the 60 Hz
\* default without one; it is the target left pending.
C18_FrameOnly ==
  call.name = "frame"
    => LET twice == BigMul(call.next, 2)
           exact == BigAdd(BigMul(call.period, 3),
                           BigFromNat(2 * call.stamp))
       IN  /\ ~BigLess(exact, twice)
           /\ BigLess(exact, BigAdd(twice, <<2>>))
           /\ call.win.known => IsPeriodOf(call.period, RateOf(call.win))
           /\ ~call.win.known => call.period = <<16, 666, 666>>
           /\ pending = <<call.next>>

\* A frame-only resolution at a positive time with an odd period, whose
\* half is not whole.
C18_Witness ==
  /\ call.name = "frame"
  /\ call.stamp # 0
  /\ call.win.known
  /\ call.period[Len(call.period)] % 2 = 1

\* C19: for an output whose current mode has the positive rate R in
\* millihertz, refresh_period_ns() gives a period with
\* 0 <= 1_000_000_000_000 - period * R < R; for an output without a
\* current mode it gives the 60 Hz default and divides by nothing.
C19_RefreshPeriodRoundTrip ==
  call.name = "refresh"
    => LET R == call.sync.current
           back == BigMul(call.period, R)
       IN  /\ R # 0 => /\ ~BigLess(PSEC_PER_SEC, back)
                       /\ BigLess(PSEC_PER_SEC, BigAdd(back, BigFromNat(R)))
           /\ R = 0 => call.period = <<16, 666, 666>>

\* The period of a rate that does not divide 1_000_000_000_000.
C19_Witness ==
  /\ call.name = "refresh"
  /\ call.sync.current # 0
  /\ BigMul(call.period, call.sync.current) # PSEC_PER_SEC

\* C20: a window never has more than one pending target time; every
\* schedule call succeeds and leaves exactly its own target time pending,
\* and it writes one advisory log entry if a target time was pending
\* before the call and none otherwise.
C20_OnePending ==
  [][/\ Len(pending) <= 1
     /\ Len(pending') <= 1
     /\ call'.name \in {"presented", "frame"}
          => /\ call'.valid
             /\ pending' = <<call'.next>>
             /\ logged' = (IF pending # <<>> THEN 1 ELSE 0)]_vars

\* A target time was scheduled over a pending one.
C20_Witness ==
  /\ call.name \in {"presented", "frame"}
  /\ logged = 1
  /\ pending = <<call.next>>

(***************************************************************************)
(* Properties of the main loop.                                            *)
(***************************************************************************)
\* C21: a submission is created only by a redraw that drains a pending
\* target time: a target time is pending before the step and none after
\* it, and the step creates exactly one submission.  With nothing pending
\* no submission is created.
C21_Original ==
  [][(\E s \in SubmIds : subm[s].mem # "live" /\ subm'[s].mem = "live")
       => /\ pending # <<>>
          /\ pending' = <<>>
          /\ Cardinality({s \in SubmIds : /\ subm[s].mem # "live"
                                          /\ subm'[s].mem = "live"}) = 1]_vars

\* C22: for as long as the process runs and is not cancelled, every
\* submission is eventually resolved, every resolution leaves a next
\* target time pending for the window, and a redraw follows every
\* resolution.
C22_Original ==
  /\ \A s \in SubmIds :
       (subm[s].mem = "live")
         ~> (subm[s].mem # "live" \/ ~running \/ fault # "none")
  /\ [][printed'.trig >= 1 => pending' # <<>>]_vars
  /\ (printed.trig >= 1) ~> (pc = "redraw" \/ ~running \/ fault # "none")

(***************************************************************************)
(* Properties of the outputs.                                              *)
(***************************************************************************)
\* The registry's reference to output o is dropped by the step: the
\* compositor removes the output, or display_destroy releases it.
RegistryDrops(o) ==
  output[o].proxy /\ (output'[o].mem # "live" \/ ~output'[o].proxy)

\* The references to output o that the step's submissions give back, and
\* those they take.
GivenBack(o) ==
  {s \in SubmIds : /\ subm[s].mem = "live"
                   /\ subm[s].sync_output = o
                   /\ ~(subm'[s].mem = "live" /\ subm'[s].sync_output = o)}

Taken(o) ==
  {s \in SubmIds : /\ subm'[s].mem = "live"
                   /\ subm'[s].sync_output = o
                   /\ ~(subm[s].mem = "live" /\ subm[s].sync_output = o)}

\* C23: an output starts with a reference count of 1; every step changes
\* the count by one for each reference taken or given back, removal by
\* the compositor counting as the registry's one reference given back;
\* the output is destroyed in exactly the steps that bring the count to
\* zero, and otherwise stays allocated with a positive count.
C23_DestroyedOnlyAtZero ==
  /\ [](pc = "check" => \A o \in OutIds : output[o] = output_create)
  /\ [][\A o \in OutIds :
          output[o].mem = "live"
            => LET count == output[o].refcount + Cardinality(Taken(o))
                              - Cardinality(GivenBack(o))
                              - (IF RegistryDrops(o) THEN 1 ELSE 0)
               IN  IF count = 0
                     THEN output'[o] = NoOutput
                     ELSE /\ count > 0
                          /\ output'[o].mem = "live"
                          /\ output'[o].refcount = count]_vars

\* An output the compositor has removed is still allocated because a
\* submission references it.
C23_Witness ==
  \E o \in OutIds, s \in SubmIds :
    /\ output[o].mem = "live"
    /\ ~output[o].proxy
    /\ output[o].refcount = 1
    /\ subm[s].mem = "live"
    /\ subm[s].sync_output = o

\* C24: whatever the order of output removals and submission events, the
\* output recorded as sync_output of a live submission is an allocated
\* output with a positive reference count, from the moment it is recorded
\* until the submission is destroyed.
C24_SyncOutputStaysValid ==
  \A s \in SubmIds :
    (subm[s].mem = "live" /\ subm[s].sync_output # 0)
      => /\ output[subm[s].sync_output].mem = "live"
         /\ output[subm[s].sync_output].refcount > 0

\* A feedback object still outstanding names an output that the
\* compositor has removed since.
C24_Witness ==
  \E s \in SubmIds :
    /\ subm[s].mem = "live"
    /\ subm[s].sync_output # 0
    /\ fb[s] = "live"
    /\ ~output[subm[s].sync_output].proxy
    /\ pc = "dispatch"

\* C25: the running flag, once cleared, is never set again; main() tests
\* it at one point only, the loop condition, so the pass in progress is
\* finished, redraw included, and the loop is then left; after that no
\* pass is started and no submission is created; and a process that was
\* cancelled reaches the end of the teardown, unless an assertion kills it
\* first.
C25_CooperativeCancellation ==
  /\ [][running' => running]_vars
  /\ [][(~running /\ pc = "dispatch" /\ pc' # pc) => pc' = "redraw"]_vars
  /\ [][(~running /\ pc \in {"check", "redraw"} /\ pc' # pc)
          => pc' = "exiting"]_vars
  /\ [][(pc \in {"exiting", "fini", "done"})
          => (/\ pc' \in {"exiting", "fini", "done"}
              /\ \A s \in SubmIds :
                   (subm'[s].mem = "live") => (subm'[s] = subm[s]))]_vars
  /\ (~running) ~> (pc = "done" \/ fault # "none")

\* The process was cancelled and has finished its teardown.
C25_Witness ==
  /\ ~running
  /\ pc = "done"
  /\ fault = "none"

Touched(s) == subm'[s] # subm[s] \/ cb'[s] # cb[s] \/ fb'[s] # fb[s]

\* The step allocated submission s.
Allocated(s) == subm[s].mem = "free" /\ subm'[s].mem = "live"

\* C27: the handlers of submission events (frame done, sync_output,
\* presented, discarded) run only while wl_display_dispatch_pending() is
\* dispatching, one at a time: outside the teardown, a step that changes
\* an existing submission, its frame callback or its feedback object, or
\* that finishes a submission, starts and ends in the dispatch phase and
\* changes no other submission; a step of redraw() changes nothing but
\* the submission it creates.
C27_HandlersOnlyInDispatch ==
  [][/\ \A s \in SubmIds :
          (Touched(s) /\ ~Allocated(s) /\ pc # "exiting")
            => /\ pc = "dispatch"
               /\ pc' = "dispatch"
               /\ \A t \in SubmIds \ {s} : ~Touched(t)
     /\ (printed'.trig >= 1) => (pc = "dispatch" /\ pc' = "dispatch")
     /\ (pc = "redraw") =>
          /\ \A s \in SubmIds : Touched(s) => Allocated(s)
          /\ printed'.trig = 0 /\ printed'.discarded = 0]_vars

\* A handler has just finished a submission in the dispatch phase while
\* events for another submission are still to come.
C27_Witness ==
  /\ pc = "dispatch"
  /\ printed.trig >= 1
  /\ \E s \in SubmIds : subm[s].mem = "live" /\ cb[s] = "live" /\ fb[s] = "live"

\* display_connect() has returned or has left the process.
SetupOver == setup.phase \in {"ready", "failed"}

\* The clock id of the last presentation_clock_id event.
LastClockId == setup.received[Len(setup.received)]

\* C28 as stated: when setup ends without a presentation_clock_id event,
\* setup has gone on with the clock initialised against CLOCK_MONOTONIC
\* and a warning printed; when one was received, the clock is initialised
\* against the clock id received.
C28_Original ==
  SetupOver =>
    IF setup.received = <<>>
      THEN /\ setup.phase = "ready"
           /\ setup.warned
           /\ oc = oring_clock_init(CLOCK_MONOTONIC, epoch)
    ELSE /\ setup.phase = "ready"
         /\ oc = oring_clock_init(LastClockId, epoch)

\* C28: when setup ends and the presentation extension was not bound (no
\* presentation_clock_id event can then arrive), the clock is initialised
\* against CLOCK_MONOTONIC, the warning is printed and setup goes on; when
\* the extension was bound and no clock id arrived, or the id that arrived
\* last is the one kept for "not received", setup fails with an error and
\* the clock is not initialised; otherwise the clock is initialised
\* against the id that arrived last, without a warning.
C28_ClockChoice ==
  /\ (~presentation) => setup.received = <<>>
  /\ SetupOver =>
       IF ~presentation
         THEN /\ setup.phase = "ready"
              /\ setup.warned /\ ~setup.error
              /\ fault = "none"
              /\ oc = oring_clock_init(CLOCK_MONOTONIC, epoch)
       ELSE IF setup.received = <<>> \/ LastClockId = INVALID_CLOCK_ID
         THEN /\ setup.phase = "failed"
              /\ setup.error /\ ~setup.warned
              /\ fault = "exit"
              /\ oc = ZeroClock
       ELSE /\ setup.phase = "ready"
            /\ ~setup.warned /\ ~setup.error
            /\ fault = "none"
            /\ oc = oring_clock_init(LastClockId, epoch)

\* The extension was bound, no clock id arrived and setup has failed.
C28_Witness ==
  /\ setup.phase = "failed"
  /\ presentation
  /\ setup.received = <<>>

\* The position of the last mode of l that is flagged current, 0 if none.
RECURSIVE LastFlaggedCurrent(_)
LastFlaggedCurrent(l) ==
  IF l = <<>> THEN 0
  ELSE IF FlaggedCurrent(l[Len(l)].flags) THEN Len(l)
  ELSE LastFlaggedCurrent(SubSeq(l, 1, Len(l) - 1))

\* C29: after any sequence of mode events, the mode list of the output
\* holds every mode received, in arrival order; current is the mode
\* received last among those flagged current, and NULL when none was;
\* current is NULL or a member of the mode list; and an event not flagged
\* current leaves current as it was.
C29_ModeListAndCurrent ==
  /\ [](/\ modes.mode_list = modes.received
        /\ modes.current = LastFlaggedCurrent(modes.received)
        /\ modes.current \in 0 .. Len(modes.mode_list)
        /\ modes.current # 0 =>
             FlaggedCurrent(modes.mode_list[modes.current].flags))
  /\ [][(/\ Len(modes'.received) = Len(modes.received) + 1
         /\ ~FlaggedCurrent(modes'.received[Len(modes'.received)].flags))
          => modes'.current = modes.current]_vars

\* Two modes flagged current have arrived, and one not flagged after them:
\* current is the second.
C29_Witness ==
  /\ Len(modes.received) >= 3
  /\ FlaggedCurrent(modes.received[1].flags)
  /\ FlaggedCurrent(modes.received[2].flags)
  /\ ~FlaggedCurrent(modes.received[3].flags)
  /\ modes.current = 2
  /\ modes.mode_list[2] = modes.received[2]

\* C30: an event that reaches a submission's handler with a handle other
\* than the one the submission holds (a frame callback that is not its
\* outstanding one, a feedback object that is not its own, or any feedback
\* object when it holds none) aborts the process in that step and leaves
\* every submission, proxy and output as it was.
C30_Original ==
  [][(event = NoEvent /\ event' # NoEvent)
       => /\ fault' = "assert"
          /\ subm' = subm
          /\ submissions_list' = submissions_list
          /\ cb' = cb
          /\ fb' = fb
          /\ output' = output]_vars

\* The last call was a query at an instant k > 0 nanoseconds before base.
QueriedBefore(k) ==
  /\ op.name = "get"
  /\ k = Nsec(oc.base) - Nsec(op.ts)
  /\ k > 0

\* C32: while the clock is frozen, a query at an instant k nanoseconds
\* before the freeze point returns offset - k when k <= offset, whatever
\* freezes and thaws came before, and fails the underflow assertion when
\* k > offset.
C32_FrozenBackward ==
  \A k \in 1 .. UINT64_MAX :
    (oc.frozen /\ QueriedBefore(k))
      => IF k <= oc.offset
           THEN q = [ok |-> TRUE, val |-> oc.offset - k]
         ELSE ~q.ok /\ aborted

\* A clock frozen for the second time was asked for an instant before its
\* last thaw: the value is counted back from the freeze point.
C32_Witness ==
  /\ oc.frozen
  /\ Len(hist) = 3
  /\ op.name = "get"
  /\ Nsec(op.ts) < Nsec(hist[2])
  /\ Nsec(hist[1]) < Nsec(hist[2])
  /\ q.ok
  /\ q.val = oc.offset - (Nsec(oc.base) - Nsec(op.ts))
  /\ q.val > 0

\* C33 as stated: on a thawed clock every query at an instant before base
\* fails an assertion.
C33_Original ==
  \A k \in 1 .. UINT64_MAX :
    (~oc.frozen /\ QueriedBefore(k)) => (~q.ok /\ aborted)

\* C33: on a thawed clock a query at an instant k nanoseconds before base
\* fails the underflow assertion exactly when k > offset, which is the
\* case of every such query on a clock that has never been frozen; with
\* k <= offset it returns offset - k.
C33_ThawedBackward ==
  \A k \in 1 .. UINT64_MAX :
    (~oc.frozen /\ QueriedBefore(k))
      => /\ IF k > oc.offset
              THEN ~q.ok /\ aborted
            ELSE q = [ok |-> TRUE, val |-> oc.offset - k]
         /\ hist = <<>> => ~q.ok

\* A clock that was frozen and thawed returned a value for an instant
\* before the thaw.
C33_Witness ==
  /\ ~oc.frozen
  /\ Len(hist) = 2
  /\ op.name = "get"
  /\ Nsec(op.ts) < Nsec(oc.base)
  /\ q.ok
  /\ q.val = oc.offset - (Nsec(oc.base) - Nsec(op.ts))

\* offset + delta as a number, before it is stored in a uint64_t.
TrueSum(c, ts) == c.offset + oring_clock_delta_nsec(c, ts)

\* C34: the sum offset + delta never wraps unnoticed: a query whose true
\* sum is negative or above UINT64_MAX fails an assertion, and every
\* value a query returns is the true sum or the freeze-point value; a
\* freeze whose true sum is above UINT64_MAX fails an assertion and leaves
\* the clock as it was, and every other freeze stores the true sum.
C34_NoSilentWrap ==
  /\ [](op.name = "get" =>
          IF TrueSum(oc, op.ts) < 0 \/ TrueSum(oc, op.ts) > UINT64_MAX
            THEN ~q.ok /\ aborted
          ELSE /\ q.ok
               /\ q.val = IF oc.frozen /\ TrueSum(oc, op.ts) > oc.offset
                            THEN oc.offset ELSE TrueSum(oc, op.ts))
  /\ [][(/\ op'.name = "freeze"
         /\ ~oc.frozen
         /\ oring_clock_delta_nsec(oc, op'.ts) >= 0)
          => IF TrueSum(oc, op'.ts) > UINT64_MAX
               THEN aborted' /\ oc' = oc
             ELSE /\ ~aborted'
                  /\ oc'.offset = TrueSum(oc, op'.ts)
                  /\ oc'.base = op'.ts
                  /\ oc'.frozen]_vars

\* A freeze whose sum does not fit a uint64_t has failed its assertion.
C34_Witness ==
  /\ aborted
  /\ op.name = "freeze"
  /\ ~oc.frozen
  /\ oring_clock_delta_nsec(oc, op.ts) >= 0
  /\ TrueSum(oc, op.ts) > UINT64_MAX

\* How many times x was written to stderr.
Written(x) == Len(SelectSeq(advisory.warnings, LAMBDA y : y = x))

C36_HandlesReleasedOnce ==
  /\ [](\A s \in SubmIds :
          /\ cb[s] = "live" <=> (subm[s].mem = "live" /\ subm[s].frame)
          /\ fb[s] = "live" <=> (subm[s].mem = "live" /\ subm[s].feedback))
  /\ [](fault # "proxy destroyed twice")
  /\ [][\A s \in SubmIds :
          (subm[s].mem = "live" /\ subm'[s].mem = "free")
            => cb'[s] = "gone" /\ fb'[s] = "gone"]_vars

\* The frame callback of a submission was destroyed by its done event while
\* the feedback object is still held, and that of another one is still
\* held; the loop has been told to stop, so that the window's teardown will
\* destroy what is left.
C36_Witness ==
  /\ fault = "none"
  /\ ~running
  /\ pc = "exiting"
  /\ \E s \in SubmIds :
       /\ subm[s].mem = "live"
       /\ subm[s].frame_done
       /\ cb[s] = "gone"
       /\ fb[s] = "live"
  /\ \E s \in SubmIds : subm[s].mem = "live" /\ cb[s] = "live"

(***************************************************************************)
(* A sync_output event that names a removed output                         *)
(***************************************************************************)
\* C37: a sync_output event whose wl_output argument resolves to no known
\* output, because the client destroyed that proxy when the compositor
\* removed the output, is handled safely: the process goes on, the
\* submission's sync_output stays unset and no reference count changes.
\* The event is the step of feedback_handle_sync_output with wo = NULL.
C37_Original ==
  [][\A s \in SubmIds :
       (/\ Dispatching
        /\ zombie
        /\ fb[s] = "live"
        /\ subm[s].sync_output = 0
        /\ pc' = pc
        /\ fault' = feedback_handle_sync_output(World, s, 0).fault
        /\ output' = feedback_handle_sync_output(World, s, 0).output
        /\ subm' = feedback_handle_sync_output(World, s, 0).subm
        /\ cb' = cb /\ fb' = fb /\ running' = running)
         => /\ fault' = "none"
            /\ subm'[s].sync_output = 0
            /\ output' = output]_vars

(***************************************************************************)
(* Reference counts when outputs come and go                               *)
(***************************************************************************)
\* The overlap entries of the window that point to output o.
Overlaps(o) == {i \in 1 .. Len(on_output_list) : on_output_list[i] = o}

\* The registry's reference: held from output_create() until the
\* compositor removes the output or display_destroy() releases it.
RegistryShare(o) == IF output[o].proxy THEN 1 ELSE 0

\* C35: in every reachable state the reference count of each allocated
\* output is the registry's share plus the number of allocated submissions
\* whose sync_output is that output plus the number of overlap entries of
\* the window that point to it.  Every pointer from which output_ref or
\* output_unref is called (an entry of display::output_list, a
\* submission's sync_output, an overlap entry) leads to an allocated
\* output whose count is positive, and no freed output is ever touched.
C35_RefcountIsHolders ==
  /\ \A o \in OutIds :
       output[o].mem = "live"
         => output[o].refcount =
              RegistryShare(o) + Cardinality(Holders(o))
                + Cardinality(Overlaps(o))
  /\ \A o \in OutIds :
       (\/ InList(output_list, o)
        \/ Holders(o) # {}
        \/ Overlaps(o) # {})
         => output[o].mem = "live" /\ output[o].refcount > 0
  /\ \A o \in OutIds : output[o].mem = "live" => InList(output_list, o)
  /\ fault # "use after free"

\* An output the compositor has removed is held by a submission and by an
\* overlap entry, while another output, announced since, is held by the
\* registry and by an overlap entry.
C35_Witness ==
  /\ fault = "none"
  /\ \E o \in OutIds :
       /\ output[o].mem = "live"
       /\ ~output[o].proxy
       /\ output[o].refcount = 2
       /\ Holders(o) # {}
       /\ Overlaps(o) # {}
  /\ \E o \in OutIds :
       /\ output[o].proxy
       /\ output[o].refcount = 2
       /\ Overlaps(o) # {}
       /\ output_list[Len(output_list)] = o
       /\ Len(output_list) = MaxOutputs
       /\ output_list # [i \in OutIds |-> i]

(***************************************************************************)
(* Outputs at shutdown                                                     *)
(***************************************************************************)
\* C39: whatever outputs were announced and removed, whatever overlap
\* entries and submissions came and went, the shutdown destroys every
\* output exactly once.  When window_destroy() has returned, no overlap
\* entry is left and every output still allocated is held by the registry
\* alone, with its proxy; the loop of display_destroy(), when it runs to
\* its end, frees every one of them, empties display::output_list and
\* prints no "output leaked" warning; and no output is freed twice or
\* touched after it was freed.
C39_ShutdownDestroysOutputs ==
  /\ []((pc \in {"fini", "disconnected"} /\ fault = "none")
          => /\ on_output_list = <<>>
             /\ \A o \in OutIds :
                  output[o].mem = "live"
                    => /\ output[o].refcount = 1
                       /\ output[o].proxy
                       /\ InList(output_list, o))
  /\ [][(pc = "disconnected" /\ pc' = "done" /\ fault' = "none")
          => /\ \A o \in OutIds : output'[o] = NoOutput
             /\ output_list' = <<>>
             /\ printed'.leaked = 0]_vars
  /\ []((pc = "done" /\ fault = "none")
          => \A o \in OutIds : output[o].mem = "free")
  /\ [](fault # "use after free")

\* display_destroy() is about to release the outputs, of which the first
\* in the list was announced after the removal and destruction of an
\* earlier one, so that the list is no longer in the order of the slots.
C39_Witness ==
  /\ pc = "disconnected"
  /\ fault = "none"
  /\ Len(output_list) = MaxOutputs
  /\ output_list[1] > output_list[Len(output_list)]

(***************************************************************************)
(* Protocol handles and the disconnection                                  *)
(***************************************************************************)
\* C40: when wl_display_disconnect() has run, no protocol handle is held
\* any more (no output has a proxy, no submission a frame callback or a
\* feedback object), and no step taken after it destroys one.
C40_Original ==
  /\ [](pc = "disconnected"
          => /\ \A o \in OutIds : ~output[o].proxy
             /\ \A s \in SubmIds : cb[s] = "gone" /\ fb[s] = "gone")
  /\ [][pc = "disconnected"
          => /\ \A o \in OutIds : output[o].proxy => output'[o].proxy
             /\ \A s \in SubmIds :
                  /\ cb[s] = "live" => cb'[s] = "live"
                  /\ fb[s] = "live" => fb'[s] = "live"]_vars

====
